---- MODULE Spec2Model ----
(***************************************************************************)
(* remote-state-sync: a producer (SyncProvider) observes mutations of its  *)
(* items through proxies, queues one patch per mutation, and publishes the *)
(* queue as one 'update' batch from a zero-delay timer; a consumer         *)
(* (SyncReceiver) starts from a namespace snapshot and replays batches.    *)
(*                                                                         *)
(* Values are trees.  A patch captures its value at emission, the snapshot *)
(* and the batches reach the consumer as copies (a serialising transport). *)
(***************************************************************************)
EXTENDS Integers, Sequences, FiniteSets, TLC

(***************************************************************************)
(* Bounds of the model.                                                    *)
(***************************************************************************)
\* producer-side API calls in one behaviour
MaxOps == 4
\* SyncReceiver.register calls in one behaviour
MaxRegisters == 1
\* SyncReceiver.register calls in one behaviour of the specification of
\* concurrent registrations
MaxRaceRegisters == 2
\* longest array a push may produce
MaxLen == 4
\* direct SyncItemReceiver.applyPatch calls in one behaviour
MaxApplies == 2
\* SyncReceiver.applyPatches calls in one behaviour of the specification of
\* batches applied to any mirror
MaxBatches == 1

(***************************************************************************)
(* Values: undefined, numbers, plain records, arrays, maps, sets, dates.   *)
(* An array is [k |-> "arr", f |-> its elements by index property ("0",    *)
(* "1", ...), len |-> its length]; an index below len that f lacks is a    *)
(* hole.                                                                   *)
(***************************************************************************)
Undef == [k |-> "undef"]
Num(n) == [k |-> "num", n |-> n]
Obj(f) == [k |-> "obj", f |-> f]
MapV(f) == [k |-> "map", f |-> f]
SetV(e) == [k |-> "set", e |-> e]
Date(n) == [k |-> "date", n |-> n]

NoFields == [x \in {} |-> Undef]

\* whether a property name is an array index
IsIndex(p) == \E i \in 0..MaxLen : ToString(i) = p
\* the array index a property name denotes
IndexOf(p) == CHOOSE i \in 0..MaxLen : ToString(i) = p
\* the array with the elements of a sequence
Arr(seq) ==
    [k |-> "arr",
     f |-> [p \in {ToString(i - 1) : i \in 1..Len(seq)} |-> seq[IndexOf(p) + 1]],
     len |-> Len(seq)]

NsNames == {"n1", "n2"}
\* item keys; "a" is also a field name, as any string may be both
Keys == {"k", "a"}

V1 == Num(1)
V2 == Num(2)
Deep == Obj("v" :> V1)
Hello == Obj(("a" :> V1) @@ ("d" :> Deep))
M1 == MapV("a" :> V1)
S1 == SetV({V1})
V3 == Num(3)
V4 == Num(4)
A1 == Arr(<<V1, V2, V3>>)
D1 == Obj("t" :> Date(1))
\* a set holding a map, in a record
Complex == Obj("items" :> SetV({M1}))

\* the calls namespace.sync(key, initialValue) made on the producer; Undef: no
\* initial value given
SyncInput(ns, key, initialValue) == [ns |-> ns, key |-> key, initialValue |-> initialValue]
SyncInputs ==
    {SyncInput("n1", "k", v) : v \in {Undef, Hello, M1, S1, A1, D1, Complex}}
    \cup {SyncInput("n1", "a", V1), SyncInput("n2", "k", V1)}
\* the namespaces the consumer registers
ReceiverNames == {"n1"}
\* concrete values handed to item.set(value)
SetValues == {V2, Hello}

(***************************************************************************)
(* utils.ts                                                                *)
(***************************************************************************)
isObject(val) == val.k \in {"obj", "arr", "map", "set", "date"}

shouldProxy(val) ==
    IF ~isObject(val) THEN FALSE
    ELSE IF val.k = "date" THEN FALSE
    ELSE TRUE

\* current[step] for a record or an array, current.get(step) for a map; every
\* other kind of value has no such member
Member(current, step) ==
    IF current.k \in {"obj", "arr", "map"} /\ step \in DOMAIN current.f
    THEN current.f[step]
    ELSE IF current.k = "arr" /\ step = "length"
    THEN Num(current.len)
    ELSE Undef

\* path indices are those of the source (0-based, endIdx exclusive)
RECURSIVE navigatePath(_, _, _, _)
navigatePath(obj, path, startIdx, endIdx) ==
    IF startIdx >= endIdx THEN obj
    ELSE IF obj = Undef THEN obj
    ELSE navigatePath(Member(obj, path[startIdx + 1]), path, startIdx + 1, endIdx)

\* !current
Falsy(current) == current = Undef \/ current = Num(0)

RestrictFields(f, keep) == [x \in keep |-> f[x]]

\* the container after setValueAtPath(current, key, value)
setValueAtPath(current, key, value) ==
    IF Falsy(current) THEN current
    ELSE IF current.k = "map"
    THEN [current EXCEPT !.f = (key :> value) @@ @]
    ELSE IF current.k = "obj"
    THEN [current EXCEPT !.f = (key :> value) @@ @]
    ELSE IF current.k = "arr"
    THEN IF key = "length"
         THEN [current EXCEPT !.f = RestrictFields(@, {p \in DOMAIN @ :
                                                           IsIndex(p) => IndexOf(p) < value.n}),
                              !.len = value.n]
         ELSE IF ~IsIndex(key)
         THEN [current EXCEPT !.f = (key :> value) @@ @]
         ELSE [current EXCEPT !.f = (key :> value) @@ @,
                              !.len = IF IndexOf(key) + 1 > @ THEN IndexOf(key) + 1 ELSE @]
    ELSE current

\* line 38 assigns a property of current; the module is strict-mode code, where
\* that raises a TypeError when current is a (truthy) primitive
setValueThrows(current) == ~Falsy(current) /\ current.k = "num"

\* the container after deleteValueAtPath(current, key)
deleteValueAtPath(current, key) ==
    IF Falsy(current) THEN current
    ELSE IF current.k \in {"map", "obj", "arr"}
    THEN [current EXCEPT !.f = RestrictFields(@, DOMAIN @ \ {key})]
    ELSE current

\* the container after addValueToSet(current, value)
addValueToSet(current, value) ==
    IF current.k = "set" THEN [current EXCEPT !.e = @ \cup {value}] ELSE current

\* the container after clearValue(current)
clearValue(current) ==
    IF current.k = "map" THEN [current EXCEPT !.f = NoFields]
    ELSE IF current.k = "set" THEN [current EXCEPT !.e = {}]
    ELSE current

\* root with the node that path[startIdx .. endIdx-1] leads to replaced by
\* node: the in-place effect of mutating the container navigatePath returned
RECURSIVE WriteBack(_, _, _, _, _)
WriteBack(root, path, startIdx, endIdx, node) ==
    IF startIdx >= endIdx THEN node
    ELSE LET step == path[startIdx + 1] IN
         [root EXCEPT !.f = [@ EXCEPT ![step] =
             WriteBack(@, path, startIdx + 1, endIdx, node)]]

(***************************************************************************)
(* types.ts: Patch.  A patch without a value carries Undef.                *)
(***************************************************************************)
Patch(op, key, path, value) == [op |-> op, key |-> key, path |-> path, value |-> value]

(***************************************************************************)
(* proxy.ts.  A mutating call made on an observed handle is                *)
(*   [path |-> the handle's path, call |-> the trap or method,             *)
(*    arg |-> the property or map key, value |-> the value written];       *)
(* the traps of a record are "write" (h.p = v) and "deleteProperty"        *)
(* (delete h.p), the methods of a map set, delete and clear, those of a    *)
(* set add, delete and clear.  On an array the calls are push(value) and   *)
(* splice(arg, 1), which the engine runs as reads and writes of the        *)
(* proxy's properties; on a date, handed out unwrapped, setTime(value).    *)
(* Each create*Proxy gives the target after the call and the patches the   *)
(* call handed to onPatch.                                                 *)
(***************************************************************************)
Call(path, call, arg, value) == [path |-> path, call |-> call, arg |-> arg, value |-> value]

Effect(target, patches) == [target |-> target, patches |-> patches]

\* Array.prototype.push(value) on the proxy of an array: Set(len, value) and
\* Set("length", len + 1), each through the set trap
arrayPush(target, rootKey, path, value) ==
    Effect([target EXCEPT !.f = (ToString(target.len) :> value) @@ @, !.len = @ + 1],
           <<Patch("set", rootKey, Append(path, ToString(target.len)), value),
             Patch("set", rootKey, Append(path, "length"), Num(target.len + 1))>>)

\* Array.prototype.splice(start, 1) on the proxy of an array without holes:
\* Set(k, Get(k + 1)) for k from start, DeleteProperty(len - 1) and
\* Set("length", len - 1), each through its trap
arraySplice(target, rootKey, path, start) ==
    LET len == target.len
        moved == [j \in 1..(len - 1 - start) |->
                     Patch("set", rootKey, Append(path, ToString(start + j - 1)),
                           target.f[ToString(start + j)])]
        kept == [p \in {ToString(i) : i \in 0..(len - 2)} |->
                    IF IndexOf(p) < start THEN target.f[p]
                    ELSE target.f[ToString(IndexOf(p) + 1)]]
    IN Effect([target EXCEPT !.f = kept, !.len = len - 1],
              moved \o <<Patch("delete", rootKey, Append(path, ToString(len - 1)), Undef),
                         Patch("set", rootKey, Append(path, "length"), Num(len - 1))>>)

\* set and deleteProperty traps (Reflect.set / Reflect.deleteProperty succeed
\* on the plain records and arrays modelled here)
createObjectProxy(target, rootKey, path, c) ==
    IF c.call = "push" THEN arrayPush(target, rootKey, path, c.value)
    ELSE IF c.call = "splice" THEN arraySplice(target, rootKey, path, IndexOf(c.arg))
    ELSE IF c.call = "write"
    THEN Effect(setValueAtPath(target, c.arg, c.value),
                <<Patch("set", rootKey, Append(path, c.arg), c.value)>>)
    ELSE Effect([target EXCEPT !.f = RestrictFields(@, DOMAIN @ \ {c.arg})],
                <<Patch("delete", rootKey, Append(path, c.arg), Undef)>>)

\* the set, delete and clear methods the get trap returns for a Map
\* the Map methods without the hasKey test of delete
createMapProxyUnguarded(target, rootKey, path, c) ==
    IF c.call = "set"
    THEN Effect([target EXCEPT !.f = (c.arg :> c.value) @@ @],
                <<Patch("set", rootKey, Append(path, c.arg), c.value)>>)
    ELSE IF c.call = "delete"
    THEN Effect([target EXCEPT !.f = RestrictFields(@, DOMAIN @ \ {c.arg})],
                <<Patch("delete", rootKey, Append(path, c.arg), Undef)>>)
    ELSE IF DOMAIN target.f # {}
    THEN Effect([target EXCEPT !.f = NoFields], <<Patch("clear", rootKey, path, Undef)>>)
    ELSE Effect(target, <<>>)

createMapProxy(target, rootKey, path, c) ==
    IF c.call = "set"
    THEN Effect([target EXCEPT !.f = (c.arg :> c.value) @@ @],
                <<Patch("set", rootKey, Append(path, c.arg), c.value)>>)
    ELSE IF c.call = "delete"
    THEN LET hasKey == c.arg \in DOMAIN target.f IN
         Effect([target EXCEPT !.f = RestrictFields(@, DOMAIN @ \ {c.arg})],
                IF hasKey THEN <<Patch("delete", rootKey, Append(path, c.arg), Undef)>>
                ELSE <<>>)
    ELSE IF DOMAIN target.f # {}
    THEN Effect([target EXCEPT !.f = NoFields], <<Patch("clear", rootKey, path, Undef)>>)
    ELSE Effect(target, <<>>)

\* the map a set holds, as its iterator hands it out
ElementMap(target) == CHOOSE m \in target.e : m.k = "map"

\* the add, delete and clear methods the get trap returns for a Set; its
\* iterator is the target's, bound to the target, and hands out the elements
\* themselves: "elementSet" is m.set(arg, value) on the map m it yields
createSetProxy(target, rootKey, path, c) ==
    IF c.call = "elementSet"
    THEN Effect([target EXCEPT !.e = (@ \ {ElementMap(target)})
                                     \cup {[ElementMap(target) EXCEPT
                                               !.f = (c.arg :> c.value) @@ @]}],
                <<>>)
    ELSE IF c.call = "add"
    THEN LET hasVal == c.value \in target.e IN
         Effect([target EXCEPT !.e = @ \cup {c.value}],
                IF ~hasVal THEN <<Patch("add", rootKey, path, c.value)>> ELSE <<>>)
    ELSE IF c.call = "delete"
    THEN LET hasVal == c.value \in target.e IN
         Effect([target EXCEPT !.e = @ \ {c.value}],
                IF hasVal THEN <<Patch("delete", rootKey, path, c.value)>> ELSE <<>>)
    ELSE IF target.e # {}
    THEN Effect([target EXCEPT !.e = {}], <<Patch("clear", rootKey, path, Undef)>>)
    ELSE Effect(target, <<>>)

\* a value that is not proxied is handed out as it is: a call on it changes
\* it and is not observed
createDeepProxy(target, rootKey, path, c) ==
    IF ~shouldProxy(target)
    THEN Effect(IF c.call = "setTime" THEN c.value ELSE target, <<>>)
    ELSE IF target.k = "map" THEN createMapProxy(target, rootKey, path, c)
    ELSE IF target.k = "set" THEN createSetProxy(target, rootKey, path, c)
    ELSE createObjectProxy(target, rootKey, path, c)

\* the paths at which reading through the root proxy yields a proxy: the get
\* trap of a record or array and the get method of a map wrap what shouldProxy
\* accepts; what a set hands out is not wrapped
RECURSIVE ProxyPaths(_, _)
ProxyPaths(node, path) ==
    IF ~shouldProxy(node) THEN {}
    ELSE {path} \cup
         (IF node.k \in {"obj", "arr", "map"}
          THEN UNION {ProxyPaths(node.f[s], Append(path, s)) : s \in DOMAIN node.f}
          ELSE {})

\* what reading path through the root yields
NodeAt(root, path) == navigatePath(root, path, 0, Len(path))

\* the paths at which reading through the root proxy yields a date, unwrapped
OpaquePaths(root) ==
    UNION {{Append(q, p) : p \in {x \in DOMAIN NodeAt(root, q).f :
                                     NodeAt(root, q).f[x].k = "date"}} :
           q \in {r \in ProxyPaths(root, <<>>) :
                     NodeAt(root, r).k \in {"obj", "arr", "map"}}}

\* the mutating calls a caller may make on the handle over node
NewField == "b"
WriteValues == {V2, Obj("v" :> V2)}
ElementValues == {V1, V2}
\* a new date, assigned where a date is or set as the time of one
NewDate == Date(2)

CallsOn(node, path) ==
    IF node.k = "obj"
    THEN {Call(path, "write", p, v) : p \in DOMAIN node.f \cup {NewField}, v \in WriteValues}
         \cup {Call(path, "write", p, NewDate) : p \in {x \in DOMAIN node.f : node.f[x].k = "date"}}
         \cup {Call(path, "deleteProperty", p, Undef) : p \in DOMAIN node.f}
    ELSE IF node.k = "arr"
    THEN (IF node.len < MaxLen THEN {Call(path, "push", "", V4)} ELSE {})
         \cup (IF node.len > 2 THEN {Call(path, "splice", ToString(1), Undef)} ELSE {})
    ELSE IF node.k = "date"
    THEN {Call(path, "setTime", "", NewDate)}
    ELSE IF node.k = "map"
    THEN {Call(path, "set", p, v) : p \in DOMAIN node.f \cup {NewField}, v \in {V2}}
         \cup {Call(path, "delete", p, Undef) : p \in DOMAIN node.f \cup {NewField}}
         \cup {Call(path, "clear", "", Undef)}
    ELSE {Call(path, "add", "", v) : v \in ElementValues}
         \cup {Call(path, "delete", "", v) : v \in ElementValues}
         \cup {Call(path, "clear", "", Undef)}
         \cup (IF \E m \in node.e : m.k = "map"
               THEN {Call(path, "elementSet", NewField, V2)}
               ELSE {})

ProxyCalls(root) ==
    UNION {CallsOn(NodeAt(root, p), p) : p \in ProxyPaths(root, <<>>) \cup OpaquePaths(root)}

\* one call made through the root proxy: the root afterwards, and the patches
mutate(root, rootKey, c) ==
    LET n == Len(c.path)
        eff == createDeepProxy(navigatePath(root, c.path, 0, n), rootKey, c.path, c)
    IN Effect(WriteBack(root, c.path, 0, n, eff.target), eff.patches)

RECURSIVE mutateAll(_, _, _)
mutateAll(root, rootKey, calls) ==
    IF calls = <<>> THEN Effect(root, <<>>)
    ELSE LET first == mutate(root, rootKey, Head(calls))
             rest == mutateAll(first.target, rootKey, Tail(calls))
         IN Effect(rest.target, first.patches \o rest.patches)

(***************************************************************************)
(* State.                                                                  *)
(***************************************************************************)
VARIABLES
    \* SyncProvider
    namespaces,      \* names in SyncProvider.namespaces
    items,           \* per namespace, the keys in SyncNamespaceProvider.items
    value,           \* per namespace and key, the target of SyncItemProvider.value
    queuedPatches,   \* per namespace, SyncNamespaceProvider.queuedPatches
    emitTimeout,     \* per namespace, whether emitTimeout holds a handle
    timers,          \* per namespace, setTimeout callbacks not yet run
    busRegister,     \* names emitted as 'register' on SyncProvider.bus, in order
    busUpdate,       \* per namespace, batches emitted as 'update', in order
    \* SyncReceiver
    rObjects,        \* the SyncNamespaceReceiver objects made so far
    rNamespaces,     \* per name, the index in rObjects that SyncReceiver.namespaces
                     \* maps it to, 0 if none
    rCalls,          \* the register calls made: [namespace, stage, snapshot, result]
    delivered,       \* per namespace, the published batches handed to applyPatches
    rUpdates,        \* the 'update' events the last applyPatches raised on items
    rLast,           \* the last applyPatches call: [namespace, patches, object, threw]
    \* the callers
    nOps,            \* producer-side calls made so far
    lastCall,        \* the last producer-side call and whether it threw
    retired,         \* per namespace and key, the target of the handle the caller
                     \* kept from toValue() when set() last replaced the root
    \* history
    rApplied,        \* per namespace, the batches applyPatches found a namespace for
    emitted,         \* per namespace, every patch handed to onPatch, in call order
    cycle,           \* per namespace, the patches handed to onPatch since the
                     \* deferred task last ran
    window           \* at: per register call, the batches published when the
                     \* snapshot it holds was produced (-1: holds none); hit: per
                     \* namespace, whether a batch published after a call's
                     \* snapshot was handed to applyPatches before the call
                     \* resolved

providerVars == <<namespaces, items, value, queuedPatches, emitTimeout, timers,
                  busRegister, busUpdate>>
historyVars == <<rApplied, emitted, cycle, window>>
receiverVars == <<rObjects, rNamespaces, rCalls, delivered, rUpdates, rLast>>
vars == <<providerVars, receiverVars, nOps, lastCall, retired, historyVars>>

(***************************************************************************)
(* provider.ts: the batching scheduler of one namespace.                   *)
(***************************************************************************)
Sched(ns) == [queuedPatches |-> queuedPatches[ns],
              emitTimeout |-> emitTimeout[ns],
              timers |-> timers[ns]]

\* a queue that takes the patch at its front
queuePatchFront(s, patch) ==
    [queuedPatches |-> <<patch>> \o s.queuedPatches,
     emitTimeout |-> IF ~s.emitTimeout THEN TRUE ELSE s.emitTimeout,
     timers |-> IF ~s.emitTimeout THEN s.timers + 1 ELSE s.timers]

\* a queue that schedules a flush with every patch it takes
queuePatchSchedulesEach(s, patch) ==
    [queuedPatches |-> Append(s.queuedPatches, patch),
     emitTimeout |-> TRUE,
     timers |-> s.timers + 1]

\* a queue that takes the patch and schedules nothing
queuePatchUnscheduled(s, patch) ==
    [queuedPatches |-> Append(s.queuedPatches, patch),
     emitTimeout |-> s.emitTimeout,
     timers |-> s.timers]

queuePatch(s, patch) ==
    [queuedPatches |-> Append(s.queuedPatches, patch),
     emitTimeout |-> IF ~s.emitTimeout THEN TRUE ELSE s.emitTimeout,
     timers |-> IF ~s.emitTimeout THEN s.timers + 1 ELSE s.timers]

\* the onPatch callback of an item, once per patch in order
RECURSIVE onPatch(_, _)
onPatch(s, patches) ==
    IF patches = <<>> THEN s
    ELSE onPatch(queuePatch(s, Head(patches)), Tail(patches))

\* a flush that resets the queue before it reads the batch from it
emitPatchesReadsAfterReset(s) ==
    IF Len(s.queuedPatches) = 0
    THEN [sched |-> [s EXCEPT !.timers = @ - 1], published |-> <<>>]
    ELSE [sched |-> [queuedPatches |-> <<>>, emitTimeout |-> FALSE,
                     timers |-> s.timers - 1],
          published |-> <<<<>>>>]

\* a flush that publishes the queue and schedules the next flush at once
emitPatchesReschedules(s) ==
    IF Len(s.queuedPatches) = 0
    THEN [sched |-> [s EXCEPT !.timers = @ - 1], published |-> <<>>]
    ELSE [sched |-> [queuedPatches |-> <<>>, emitTimeout |-> TRUE,
                     timers |-> s.timers],
          published |-> <<s.queuedPatches>>]

\* a flush that publishes the queue and leaves the schedule handle set
emitPatchesKeepsHandle(s) ==
    IF Len(s.queuedPatches) = 0
    THEN [sched |-> [s EXCEPT !.timers = @ - 1], published |-> <<>>]
    ELSE [sched |-> [queuedPatches |-> <<>>, emitTimeout |-> s.emitTimeout,
                     timers |-> s.timers - 1],
          published |-> <<s.queuedPatches>>]

\* a flush that publishes the queue and keeps it
emitPatchesKeepsQueue(s) ==
    IF Len(s.queuedPatches) = 0
    THEN [sched |-> [s EXCEPT !.timers = @ - 1], published |-> <<>>]
    ELSE [sched |-> [queuedPatches |-> s.queuedPatches, emitTimeout |-> FALSE,
                     timers |-> s.timers - 1],
          published |-> <<s.queuedPatches>>]

\* the scheduler after the deferred task ran emitPatches, and what it published
emitPatchesResult(s) ==
    IF Len(s.queuedPatches) = 0
    THEN [sched |-> [s EXCEPT !.timers = @ - 1], published |-> <<>>]
    ELSE [sched |-> [queuedPatches |-> <<>>, emitTimeout |-> FALSE,
                     timers |-> s.timers - 1],
          published |-> <<s.queuedPatches>>]

(***************************************************************************)
(* provider.ts: SyncItemProvider.                                          *)
(***************************************************************************)
\* a setValue that addresses the item by the first step of the path
setValueKeyInPath(key, newVal) == Effect(newVal, <<Patch("set", key, <<key>>, newVal)>>)

\* setValue: the root set patch, then the new root behind a fresh proxy
setValue(key, newVal) == Effect(newVal, <<Patch("set", key, <<>>, newVal)>>)

\* an updater: the mutating calls it makes on its argument, and what it
\* returns (Undef: nothing)
Updater(calls, ret) == [k |-> "fn", calls |-> calls, ret |-> ret]

Updaters ==
    { Updater(<<Call(<<>>, "write", "a", V2)>>, Undef),
      Updater(<<Call(<<"d">>, "write", "v", V2)>>, Undef),
      Updater(<<Call(<<>>, "deleteProperty", "d", Undef)>>, Undef),
      Updater(<<Call(<<>>, "write", "a", V2),
                Call(<<>>, "write", "d", Obj("v" :> V2))>>, Undef),
      Updater(<<>>, V2),
      Updater(<<>>, Undef) }

CallValid(root, c) ==
    /\ c.path \in ProxyPaths(root, <<>>)
    /\ LET node == navigatePath(root, c.path, 0, Len(c.path)) IN
       c.call \in (IF node.k = "obj" THEN {"write", "deleteProperty"}
                   ELSE IF node.k = "arr" THEN {"push", "splice"}
                   ELSE IF node.k = "map" THEN {"set", "delete", "clear"}
                   ELSE {"add", "delete", "clear"})

\* whether every call of the updater finds the handle it is made on
RECURSIVE CallsValid(_, _)
CallsValid(root, calls) ==
    IF calls = <<>> THEN TRUE
    ELSE /\ CallValid(root, Head(calls))
         /\ CallsValid(mutate(root, "", Head(calls)).target, Tail(calls))

\* an updater handed the target instead of the proxy over it
invokeUpdaterRaw(root, key, updater) ==
    Effect(mutateAll(root, key, updater.calls).target, <<>>)

\* updater(this.value): this.value is what setValue stored, the proxy
invokeUpdater(root, key, updater) == mutateAll(root, key, updater.calls)

\* set(valOrUpdater) without the test of the updater's return value
setAlwaysReplaces(root, key, valOrUpdater) ==
    IF valOrUpdater.k = "fn"
    THEN Effect(setValue(key, valOrUpdater.ret).target,
                invokeUpdater(root, key, valOrUpdater).patches
                   \o setValue(key, valOrUpdater.ret).patches)
    ELSE setValue(key, valOrUpdater)

\* set(valOrUpdater): the root afterwards and the patches handed to onPatch
set(root, key, valOrUpdater) ==
    IF valOrUpdater.k = "fn"
    THEN LET ran == invokeUpdater(root, key, valOrUpdater)
             returnVal == valOrUpdater.ret
         IN IF returnVal # Undef
            THEN Effect(setValue(key, returnVal).target,
                        ran.patches \o setValue(key, returnVal).patches)
            ELSE ran
    ELSE setValue(key, valOrUpdater)

(***************************************************************************)
(* receiver.ts.  A SyncNamespaceReceiver is                                *)
(*   [namespace, snapshot (a record of item values), items (the keys       *)
(*    synced), value (per key, SyncItemReceiver.value)].                   *)
(***************************************************************************)
\* root after the container that path[startIdx .. endIdx-1] leads to became
\* node; a container left as it was leaves the root as it was
UpdateAt(root, path, startIdx, endIdx, node) ==
    IF node = navigatePath(root, path, startIdx, endIdx) THEN root
    ELSE WriteBack(root, path, startIdx, endIdx, node)

\* SyncItemReceiver.value after applyPatch(patch)
applyPatch(val, patch) ==
    LET n == Len(patch.path)
        lastKey == patch.path[n]
    IN IF n = 1
       THEN IF patch.op = "set" THEN patch.value ELSE val
       ELSE IF patch.op = "set"
       THEN UpdateAt(val, patch.path, 1, n - 1,
                setValueAtPath(navigatePath(val, patch.path, 1, n - 1), lastKey, patch.value))
       ELSE IF patch.op = "delete"
       THEN UpdateAt(val, patch.path, 1, n - 1,
                deleteValueAtPath(navigatePath(val, patch.path, 1, n - 1), lastKey))
       ELSE IF patch.op = "add"
       THEN UpdateAt(val, patch.path, 1, n,
                addValueToSet(navigatePath(val, patch.path, 1, n), patch.value))
       ELSE UpdateAt(val, patch.path, 1, n,
                clearValue(navigatePath(val, patch.path, 1, n)))

\* the snapshot after applyPatchToObject(this.snapshot, patch)
applyPatchToObject(obj, patch) ==
    LET n == Len(patch.path)
        lastKey == patch.path[n]
    IN IF n = 0 THEN obj
       ELSE IF patch.op = "clear"
       THEN UpdateAt(obj, patch.path, 0, n, clearValue(navigatePath(obj, patch.path, 0, n)))
       ELSE IF patch.op = "add"
       THEN UpdateAt(obj, patch.path, 0, n,
                addValueToSet(navigatePath(obj, patch.path, 0, n), patch.value))
       ELSE IF patch.op = "set"
       THEN UpdateAt(obj, patch.path, 0, n - 1,
                setValueAtPath(navigatePath(obj, patch.path, 0, n - 1), lastKey, patch.value))
       ELSE UpdateAt(obj, patch.path, 0, n - 1,
                deleteValueAtPath(navigatePath(obj, patch.path, 0, n - 1), lastKey))

\* whether item.applyPatch(patch) raises
applyPatchThrows(val, patch) ==
    LET n == Len(patch.path) IN
    /\ n > 1
    /\ patch.op = "set"
    /\ setValueThrows(navigatePath(val, patch.path, 1, n - 1))

\* whether applyPatchToObject(obj, patch) raises
applyPatchToObjectThrows(obj, patch) ==
    LET n == Len(patch.path) IN
    /\ n > 0
    /\ patch.op = "set"
    /\ setValueThrows(navigatePath(obj, patch.path, 0, n - 1))

\* the item a patch is routed to: applyPatches reads it from the path
PatchItemKey(patch) == patch.path[1]

\* position in the affectedItems map of the entry for key, 0 if none
AffectedIndex(affected, key) ==
    IF \E i \in 1..Len(affected) : affected[i].key = key
    THEN CHOOSE i \in 1..Len(affected) : affected[i].key = key
    ELSE 0

\* SyncNamespaceReceiver.applyPatches, first loop.  An entry of affected is
\* [key, oldVal, same, patches]: oldVal is what item.toValue() returned when
\* the entry was made, a reference, so it follows every in-place change of
\* the mirror until a root-level set replaces the mirror (same: still so).
RECURSIVE applyLoop(_, _, _)
applyLoop(nsr, affected, patches) ==
    IF patches = <<>> THEN [nsr |-> nsr, affected |-> affected, threw |-> FALSE]
    ELSE LET patch == Head(patches) IN
         IF Len(patch.path) = 0 THEN applyLoop(nsr, affected, Tail(patches))
         ELSE LET key == PatchItemKey(patch) IN
              IF key \in nsr.items
              THEN LET i == AffectedIndex(affected, key)
                       aff == IF i = 0
                              THEN Append(affected, [key |-> key, oldVal |-> nsr.value[key],
                                                     same |-> TRUE, patches |-> <<>>])
                              ELSE affected
                       j == IF i = 0 THEN Len(aff) ELSE i
                       newVal == applyPatch(nsr.value[key], patch)
                       replaced == Len(patch.path) = 1 /\ patch.op = "set"
                       same == aff[j].same /\ ~replaced
                   IN IF applyPatchThrows(nsr.value[key], patch)
                      THEN [nsr |-> nsr, affected |-> aff, threw |-> TRUE]
                      ELSE applyLoop([nsr EXCEPT !.value[key] = newVal],
                                     [aff EXCEPT ![j] =
                                         [key |-> key,
                                          oldVal |-> IF same THEN newVal ELSE @.oldVal,
                                          same |-> same,
                                          patches |-> Append(@.patches, patch)]],
                                     Tail(patches))
              ELSE IF applyPatchToObjectThrows(nsr.snapshot, patch)
                   THEN [nsr |-> nsr, affected |-> affected, threw |-> TRUE]
                   ELSE applyLoop([nsr EXCEPT !.snapshot = applyPatchToObject(@, patch)],
                                  affected, Tail(patches))

\* 'update' raised for an item when its first patch of the batch has been
\* applied, inside the first loop
NotificationsInLoop(nsr, affected) ==
    [i \in 1..Len(affected) |->
        [key |-> affected[i].key,
         newValue |-> affected[i].oldVal,
         oldValue |-> affected[i].oldVal,
         patches |-> affected[i].patches,
         mirrors |-> [nsr.value EXCEPT ![affected[i].key] = affected[i].oldVal]]]

\* second loop: one 'update' per entry of affectedItems, in insertion order;
\* mirrors is what toValue() of each item of the namespace returns while the
\* listener runs, the first loop being over
Notifications(nsr, affected) ==
    [i \in 1..Len(affected) |->
        [key |-> affected[i].key,
         newValue |-> nsr.value[affected[i].key],
         oldValue |-> affected[i].oldVal,
         patches |-> affected[i].patches,
         mirrors |-> nsr.value]]

\* SyncNamespaceReceiver.applyPatches: the namespace afterwards and the
\* 'update' events raised on its items
applyPatches(nsr, patches) ==
    LET r == applyLoop(nsr, <<>>, patches) IN
    [nsr |-> r.nsr,
     updates |-> IF r.threw THEN <<>> ELSE Notifications(r.nsr, r.affected),
     threw |-> r.threw]

\* SyncNamespaceProvider.getSnapshot
getSnapshot(ns) == Obj([key \in items[ns] |-> value[ns][key]])

\* new SyncNamespaceReceiver(namespace, snapshot)
SyncNamespaceReceiver(namespace, snapshot) ==
    [namespace |-> namespace, snapshot |-> snapshot, items |-> {},
     value |-> [key \in Keys |-> Undef]]

(***************************************************************************)
(* Producer-side actions.                                                  *)
(***************************************************************************)
Recorded(op, ns, key, arg, threw) ==
    /\ nOps' = nOps + 1
    /\ lastCall' = [op |-> op, ns |-> ns, key |-> key, arg |-> arg, threw |-> threw]

\* a call by a caller that keeps no handle of a root once it is replaced
Called(op, ns, key, arg, threw) ==
    /\ Recorded(op, ns, key, arg, threw)
    /\ UNCHANGED retired

\* the patches an item of ns handed to onPatch, through the namespace's queue
\* every namespace's scheduler is handed the patches of ns
EnqueueShared(ns, patches) ==
    /\ queuedPatches' = [n \in NsNames |-> onPatch(Sched(n), patches).queuedPatches]
    /\ emitTimeout' = [n \in NsNames |-> onPatch(Sched(n), patches).emitTimeout]
    /\ timers' = [n \in NsNames |-> onPatch(Sched(n), patches).timers]
    /\ emitted' = [emitted EXCEPT ![ns] = @ \o patches]
    /\ cycle' = [cycle EXCEPT ![ns] = @ \o patches]
    /\ UNCHANGED <<rApplied, window>>

Enqueue(ns, patches) ==
    LET s == onPatch(Sched(ns), patches) IN
    /\ queuedPatches' = [queuedPatches EXCEPT ![ns] = s.queuedPatches]
    /\ emitTimeout' = [emitTimeout EXCEPT ![ns] = s.emitTimeout]
    /\ timers' = [timers EXCEPT ![ns] = s.timers]
    /\ emitted' = [emitted EXCEPT ![ns] = @ \o patches]
    /\ cycle' = [cycle EXCEPT ![ns] = @ \o patches]
    /\ UNCHANGED <<rApplied, window>>

\* a register that never finds the namespace
hasNamespaceNever(namespace) == FALSE

\* this.namespaces.has(namespace)
hasNamespace(namespace) == namespace \in namespaces

\* a sync that never finds the key
hasItemNever(ns, key) == FALSE

\* this.items.has(key)
hasItem(ns, key) == key \in items[ns]

\* SyncProvider.register
register(namespace) ==
    /\ nOps < MaxOps
    /\ IF hasNamespace(namespace)
       THEN UNCHANGED providerVars
       ELSE /\ namespaces' = namespaces \cup {namespace}
            /\ items' = [items EXCEPT ![namespace] = {}]
            /\ value' = [value EXCEPT ![namespace] = [key \in Keys |-> Undef]]
            /\ queuedPatches' = [queuedPatches EXCEPT ![namespace] = <<>>]
            /\ emitTimeout' = [emitTimeout EXCEPT ![namespace] = FALSE]
            /\ busRegister' = Append(busRegister, namespace)
            /\ UNCHANGED <<timers, busUpdate>>
    /\ Called("register", namespace, "", Undef, FALSE)
    /\ UNCHANGED <<historyVars, receiverVars>>

\* SyncNamespaceProvider.sync, with the constructor of SyncItemProvider
sync(ns, key, initialValue) ==
    /\ nOps < MaxOps
    /\ ns \in namespaces
    /\ IF hasItem(ns, key)
       THEN /\ Called("sync", ns, key, initialValue, TRUE)
            /\ UNCHANGED <<providerVars, historyVars, receiverVars>>
       ELSE /\ items' = [items EXCEPT ![ns] = @ \cup {key}]
            /\ IF initialValue # Undef
               THEN /\ value' = [value EXCEPT ![ns][key] =
                                    setValue(key, initialValue).target]
                    /\ Enqueue(ns, setValue(key, initialValue).patches)
               ELSE /\ value' = [value EXCEPT ![ns][key] = Undef]
                    /\ UNCHANGED <<queuedPatches, emitTimeout, timers, historyVars>>
            /\ Called("sync", ns, key, initialValue, FALSE)
            /\ UNCHANGED <<namespaces, busRegister, busUpdate, receiverVars>>

\* SyncItemProvider.set with a concrete value
itemSet(ns, key, val) ==
    /\ nOps < MaxOps
    /\ key \in items[ns]
    /\ LET eff == set(value[ns][key], key, val) IN
       /\ value' = [value EXCEPT ![ns][key] = eff.target]
       /\ Enqueue(ns, eff.patches)
    /\ Called("set", ns, key, val, FALSE)
    /\ UNCHANGED <<namespaces, items, busRegister, busUpdate, receiverVars>>

\* SyncItemProvider.set with an updater
itemUpdate(ns, key, updater) ==
    /\ nOps < MaxOps
    /\ key \in items[ns]
    /\ CallsValid(value[ns][key], updater.calls)
    /\ LET eff == set(value[ns][key], key, updater) IN
       /\ value' = [value EXCEPT ![ns][key] = eff.target]
       /\ Enqueue(ns, eff.patches)
    /\ Called("update", ns, key, updater, FALSE)
    /\ UNCHANGED <<namespaces, items, busRegister, busUpdate, receiverVars>>

\* one mutating call on a handle read from item.toValue()
proxyCall(ns, key) ==
    /\ nOps < MaxOps
    /\ key \in items[ns]
    /\ \E c \in ProxyCalls(value[ns][key]) :
          LET eff == mutate(value[ns][key], key, c) IN
          /\ value' = [value EXCEPT ![ns][key] = eff.target]
          /\ Enqueue(ns, eff.patches)
          /\ Called("mutate", ns, key, c, FALSE)
    /\ UNCHANGED <<namespaces, items, busRegister, busUpdate, receiverVars>>

\* the deferred task: SyncNamespaceProvider.emitPatches
emitPatches(ns) ==
    /\ timers[ns] > 0
    /\ LET r == emitPatchesResult(Sched(ns)) IN
       /\ queuedPatches' = [queuedPatches EXCEPT ![ns] = r.sched.queuedPatches]
       /\ emitTimeout' = [emitTimeout EXCEPT ![ns] = r.sched.emitTimeout]
       /\ timers' = [timers EXCEPT ![ns] = r.sched.timers]
       /\ busUpdate' = [busUpdate EXCEPT ![ns] = @ \o r.published]
    /\ cycle' = [cycle EXCEPT ![ns] = <<>>]
    /\ UNCHANGED <<namespaces, items, value, busRegister, nOps, lastCall, retired, emitted,
                   rApplied, window, receiverVars>>

(***************************************************************************)
(* Consumer-side actions.  The snapshot capability asks the producer       *)
(* (SyncProvider.getStateSnapshot); the 'update' listener hands each       *)
(* published batch to SyncReceiver.applyPatches, in order.                 *)
(***************************************************************************)
RegisterCall(namespace, stage, snapshot, result) ==
    [namespace |-> namespace, stage |-> stage, snapshot |-> snapshot, result |-> result]

\* the snapshot of register call c is produced now, if its namespace exists
Fetched(c) ==
    IF rCalls[c].namespace \notin namespaces THEN window
    ELSE [window EXCEPT !.at[c] = Len(busUpdate[rCalls[c].namespace])]

\* batch number b of the namespace reaches SyncReceiver.applyPatches and
\* finds no namespace object: `if (ns)` skips it.  It falls in the window of
\* a call that holds a snapshot produced before the batch was published
Dropped(namespace, b) ==
    [window EXCEPT !.hit[namespace] =
        @ \/ \E c \in 1..Len(rCalls) :
                 /\ rCalls[c].namespace = namespace
                 /\ rCalls[c].stage = "fetched"
                 /\ b > window.at[c]]

\* SyncReceiver.register up to its await
receiverRegister(namespace) ==
    /\ Len(rCalls) < MaxRegisters
    /\ rCalls' = Append(rCalls,
          IF rNamespaces[namespace] # 0
          THEN RegisterCall(namespace, "resolved", Undef, rNamespaces[namespace])
          ELSE RegisterCall(namespace, "awaiting", Undef, 0))
    /\ UNCHANGED <<providerVars, rObjects, rNamespaces, delivered, rUpdates, rLast,
                   nOps, lastCall, retired, historyVars>>

\* SyncReceiver.register up to its await, by a caller that may call again
\* before an earlier call has resolved
receiverRegisterAgain(namespace) ==
    /\ Len(rCalls) < MaxRaceRegisters
    /\ rCalls' = Append(rCalls,
          IF rNamespaces[namespace] # 0
          THEN RegisterCall(namespace, "resolved", Undef, rNamespaces[namespace])
          ELSE RegisterCall(namespace, "awaiting", Undef, 0))
    /\ UNCHANGED <<providerVars, rObjects, rNamespaces, delivered, rUpdates, rLast,
                   nOps, lastCall, retired, historyVars>>

\* SyncProvider.getStateSnapshot, called by the snapshotGetter of call c
getStateSnapshot(c) ==
    /\ c \in 1..Len(rCalls)
    /\ rCalls[c].stage = "awaiting"
    /\ LET namespace == rCalls[c].namespace IN
       rCalls' = [rCalls EXCEPT ![c] =
          IF namespace \notin namespaces
          THEN RegisterCall(namespace, "rejected", Undef, 0)
          ELSE RegisterCall(namespace, "fetched", getSnapshot(namespace), 0)]
    /\ window' = Fetched(c)
    /\ UNCHANGED <<providerVars, rObjects, rNamespaces, delivered, rUpdates, rLast,
                   nOps, lastCall, retired, rApplied, emitted, cycle>>

\* SyncReceiver.register after its await
receiverRegistered(c) ==
    /\ c \in 1..Len(rCalls)
    /\ rCalls[c].stage = "fetched"
    /\ LET namespace == rCalls[c].namespace IN
       /\ rObjects' = Append(rObjects, SyncNamespaceReceiver(namespace, rCalls[c].snapshot))
       /\ rNamespaces' = [rNamespaces EXCEPT ![namespace] = Len(rObjects) + 1]
       /\ rCalls' = [rCalls EXCEPT ![c] =
             RegisterCall(namespace, "resolved", Undef, Len(rObjects) + 1)]
    /\ window' = [window EXCEPT !.at[c] = -1]
    /\ UNCHANGED <<providerVars, delivered, rUpdates, rLast, nOps, lastCall, retired,
                   rApplied, emitted, cycle>>

\* SyncNamespaceReceiver.sync on the namespace object o
receiverSync(o, key) ==
    /\ o \in 1..Len(rObjects)
    /\ key \notin rObjects[o].items
    /\ rObjects' = [rObjects EXCEPT ![o] =
          [@ EXCEPT !.items = @ \cup {key},
                    !.value[key] = Member(rObjects[o].snapshot, key)]]
    /\ UNCHANGED <<providerVars, rNamespaces, rCalls, delivered, rUpdates, rLast,
                   nOps, lastCall, retired, historyVars>>

\* SyncReceiver.applyPatches with the next published batch of the namespace
receiverApplyPatches(namespace) ==
    /\ delivered[namespace] < Len(busUpdate[namespace])
    /\ delivered' = [delivered EXCEPT ![namespace] = @ + 1]
    /\ LET patches == busUpdate[namespace][delivered[namespace] + 1]
           o == rNamespaces[namespace]
       IN IF o # 0
          THEN LET r == applyPatches(rObjects[o], patches) IN
               /\ rObjects' = [rObjects EXCEPT ![o] = r.nsr]
               /\ rUpdates' = r.updates
               /\ rLast' = [namespace |-> namespace, patches |-> patches,
                            object |-> o, threw |-> r.threw]
          ELSE /\ rUpdates' = <<>>
               /\ rLast' = [namespace |-> namespace, patches |-> patches,
                            object |-> 0, threw |-> FALSE]
               /\ UNCHANGED rObjects
    /\ rApplied' = [rApplied EXCEPT ![namespace] =
                       IF rNamespaces[namespace] # 0 THEN @ + 1 ELSE @]
    /\ window' = IF rNamespaces[namespace] # 0 THEN window
                 ELSE Dropped(namespace, delivered[namespace] + 1)
    /\ UNCHANGED <<providerVars, rNamespaces, rCalls, nOps, lastCall, retired, emitted, cycle>>

Init ==
    /\ namespaces = {}
    /\ items = [ns \in NsNames |-> {}]
    /\ value = [ns \in NsNames |-> [key \in Keys |-> Undef]]
    /\ queuedPatches = [ns \in NsNames |-> <<>>]
    /\ emitTimeout = [ns \in NsNames |-> FALSE]
    /\ timers = [ns \in NsNames |-> 0]
    /\ busRegister = <<>>
    /\ busUpdate = [ns \in NsNames |-> <<>>]
    /\ nOps = 0
    /\ lastCall = [op |-> "none", ns |-> "", key |-> "", arg |-> Undef, threw |-> FALSE]
    /\ retired = [ns \in NsNames |-> [key \in Keys |-> Undef]]
    /\ rApplied = [ns \in NsNames |-> 0]
    /\ window = [at |-> [c \in 1..MaxRaceRegisters |-> -1],
                 hit |-> [ns \in NsNames |-> FALSE]]
    /\ emitted = [ns \in NsNames |-> <<>>]
    /\ cycle = [ns \in NsNames |-> <<>>]
    /\ rObjects = <<>>
    /\ rNamespaces = [ns \in NsNames |-> 0]
    /\ rCalls = <<>>
    /\ delivered = [ns \in NsNames |-> 0]
    /\ rUpdates = <<>>
    /\ rLast = [namespace |-> "", patches |-> <<>>, object |-> 0, threw |-> FALSE]

\* the producer and the host's timers
ProviderNext ==
    \/ \E ns \in NsNames : register(ns)
    \/ \E i \in SyncInputs : sync(i.ns, i.key, i.initialValue)
    \/ \E ns \in NsNames, key \in Keys, v \in SetValues : itemSet(ns, key, v)
    \/ \E ns \in NsNames, key \in Keys, u \in Updaters : itemUpdate(ns, key, u)
    \/ \E ns \in NsNames, key \in Keys : proxyCall(ns, key)
    \/ \E ns \in NsNames : emitPatches(ns)

\* the producer alone, no consumer attached
ProviderSpec == Init /\ [][ProviderNext]_vars

\* the host runs every callback handed to setTimeout
FairProviderSpec == ProviderSpec /\ \A ns \in NsNames : WF_vars(emitPatches(ns))

Next ==
    \/ \E ns \in NsNames : register(ns)
    \/ \E i \in SyncInputs : sync(i.ns, i.key, i.initialValue)
    \/ \E ns \in NsNames, key \in Keys, v \in SetValues : itemSet(ns, key, v)
    \/ \E ns \in NsNames, key \in Keys, u \in Updaters : itemUpdate(ns, key, u)
    \/ \E ns \in NsNames, key \in Keys : proxyCall(ns, key)
    \/ \E ns \in NsNames : emitPatches(ns)
    \/ \E ns \in ReceiverNames : receiverRegister(ns)
    \/ \E c \in 1..MaxRegisters : getStateSnapshot(c)
    \/ \E c \in 1..MaxRegisters : receiverRegistered(c)
    \/ \E o \in 1..MaxRegisters, key \in Keys : receiverSync(o, key)
    \/ \E ns \in NsNames : receiverApplyPatches(ns)

Spec == Init /\ [][Next]_vars

\* a consumer whose callers register concurrently, against a producer that
\* only registers namespaces and items
RaceNext ==
    \/ \E ns \in NsNames : register(ns)
    \/ \E i \in SyncInputs : sync(i.ns, i.key, i.initialValue)
    \/ \E ns \in NsNames : emitPatches(ns)
    \/ \E ns \in ReceiverNames : receiverRegisterAgain(ns)
    \/ \E c \in 1..MaxRaceRegisters : getStateSnapshot(c)
    \/ \E c \in 1..MaxRaceRegisters : receiverRegistered(c)
    \/ \E o \in 1..MaxRaceRegisters, key \in Keys : receiverSync(o, key)
    \/ \E ns \in NsNames : receiverApplyPatches(ns)

RaceSpec == Init /\ [][RaceNext]_vars

(***************************************************************************)
(* SyncItemReceiver.applyPatch on its own: one item 'k' of one namespace   *)
(* object, holding any of a set of mirrors, and a caller that hands it     *)
(* patches one by one.  rLast.patches lists the patches handed over so     *)
(* far, rLast.threw tells whether the last call raised.                    *)
(***************************************************************************)
Nest == Obj(("a" :> S1) @@ ("d" :> M1))

\* the values new SyncItemReceiver(key, initialValue) starts from
ApplyMirrors == {Undef, V1, Hello, M1, S1, A1, D1, Nest}

\* paths as applyPatch reads them: path[0] is the slot of the item key
ApplyPaths == {<<"k">>, <<"k", "a">>, <<"k", "d", "v">>, <<"k", "a", "x">>,
               <<"k", "1">>, <<"k", "t">>}

ApplyPatchInputs ==
    {Patch("set", "k", path, v) : path \in ApplyPaths, v \in {V2, Hello}}
    \cup {Patch("set", "k", <<"k", "length">>, V1)}
    \cup {Patch("delete", "k", path, Undef) : path \in ApplyPaths}
    \cup {Patch("add", "k", path, V2) : path \in {<<"k">>, <<"k", "a">>, <<"k", "d">>}}
    \cup {Patch("clear", "k", path, Undef) : path \in {<<"k">>, <<"k", "a">>, <<"k", "d">>}}

\* item.applyPatch(patch) on the item 'k'
itemApplyPatch(patch) ==
    /\ Len(rLast.patches) < MaxApplies
    /\ LET val == rObjects[1].value["k"]
           threw == applyPatchThrows(val, patch)
       IN /\ rObjects' = [rObjects EXCEPT ![1].value["k"] =
                              IF threw THEN val ELSE applyPatch(val, patch)]
          /\ rLast' = [rLast EXCEPT !.patches = Append(@, patch), !.threw = threw]
    /\ UNCHANGED <<providerVars, rNamespaces, rCalls, delivered, rUpdates,
                   nOps, lastCall, retired, historyVars>>

\* no producer, no register call, nothing delivered
ApplyIdle ==
    /\ namespaces = {}
    /\ items = [ns \in NsNames |-> {}]
    /\ value = [ns \in NsNames |-> [key \in Keys |-> Undef]]
    /\ queuedPatches = [ns \in NsNames |-> <<>>]
    /\ emitTimeout = [ns \in NsNames |-> FALSE]
    /\ timers = [ns \in NsNames |-> 0]
    /\ busRegister = <<>>
    /\ busUpdate = [ns \in NsNames |-> <<>>]
    /\ nOps = 0
    /\ lastCall = [op |-> "none", ns |-> "", key |-> "", arg |-> Undef, threw |-> FALSE]
    /\ retired = [ns \in NsNames |-> [key \in Keys |-> Undef]]
    /\ rApplied = [ns \in NsNames |-> 0]
    /\ window = [at |-> [c \in 1..MaxRaceRegisters |-> -1],
                 hit |-> [ns \in NsNames |-> FALSE]]
    /\ emitted = [ns \in NsNames |-> <<>>]
    /\ cycle = [ns \in NsNames |-> <<>>]
    /\ rNamespaces = [ns \in NsNames |-> IF ns = "n1" THEN 1 ELSE 0]
    /\ rCalls = <<>>
    /\ delivered = [ns \in NsNames |-> 0]
    /\ rUpdates = <<>>
    /\ rLast = [namespace |-> "n1", patches |-> <<>>, object |-> 1, threw |-> FALSE]

ApplyInit ==
    /\ ApplyIdle
    /\ \E mirror \in ApplyMirrors :
          rObjects = <<[SyncNamespaceReceiver("n1", Obj(NoFields)) EXCEPT
                          !.items = {"k"}, !.value["k"] = mirror]>>

ApplyNext == \E patch \in ApplyPatchInputs : itemApplyPatch(patch)

ApplySpec == ApplyInit /\ [][ApplyNext]_vars

(***************************************************************************)
(* SyncItemReceiver with its refs.  The item 'k' is                        *)
(*   [value, gen, ref, shallowRef]: gen numbers the objects this.value has *)
(* held; a ref is [made, obj, value], obj the number of the object its     *)
(* value is (ref() wraps the object in a reactive proxy over it,           *)
(* shallowRef() holds it as it is), 0 when it holds a primitive.  A write  *)
(* to an object is seen by every holder of it.                             *)
(***************************************************************************)
NoRef == [made |-> FALSE, obj |-> 0, value |-> Undef]

\* ref(val) or shallowRef(val), val being object number gen if an object
MakeRef(val, gen) == [made |-> TRUE, obj |-> IF isObject(val) THEN gen ELSE 0, value |-> val]

\* whether the ref holds the object this.value holds
Shares(item, r) == r.made /\ r.obj = item.gen

\* a root level set that leaves the shallow ref as it was
rootSetSkipsShallowRef(item, patch) ==
    [item EXCEPT !.value = patch.value,
                 !.gen = @ + 1,
                 !.ref = IF @.made THEN MakeRef(patch.value, item.gen + 1) ELSE @]

\* applyPatch, path.length === 1 and op 'set'
rootSet(item, patch) ==
    [item EXCEPT !.value = patch.value,
                 !.gen = @ + 1,
                 !.ref = IF @.made THEN MakeRef(patch.value, item.gen + 1) ELSE @,
                 !.shallowRef = IF @.made THEN MakeRef(patch.value, item.gen + 1) ELSE @]

\* applyPatch, nested patch: the write on this.value, then the write on
\* this._ref.value; raised: which of the two raised, 0 if none
nestedPatch(item, patch) ==
    LET first == applyPatch(item.value, patch)
        second == IF Shares(item, item.ref) THEN applyPatch(first, patch) ELSE first
        raised == IF applyPatchThrows(item.value, patch) THEN 1
                  ELSE IF /\ item.ref.made
                          /\ applyPatchThrows(IF Shares(item, item.ref) THEN first
                                              ELSE item.ref.value, patch)
                  THEN 2
                  ELSE 0
        held == IF raised = 1 THEN item.value ELSE IF raised = 2 THEN first ELSE second
    IN [item |-> [item EXCEPT
                     !.value = held,
                     !.ref = IF Shares(item, @) THEN [@ EXCEPT !.value = held]
                             ELSE IF @.made /\ raised = 0
                             THEN [@ EXCEPT !.value = applyPatch(@, patch)]
                             ELSE @,
                     !.shallowRef = IF Shares(item, @) THEN [@ EXCEPT !.value = held]
                                    ELSE @],
        threw |-> raised # 0]

\* SyncItemReceiver.applyPatch with the refs it keeps
applyPatchWithRefs(item, patch) ==
    IF Len(patch.path) = 1
    THEN [item |-> IF patch.op = "set" THEN rootSet(item, patch) ELSE item,
          threw |-> FALSE]
    ELSE nestedPatch(item, patch)

\* item.toRef() on the item 'k'
itemToRef ==
    /\ ~rObjects[1].k.ref.made
    /\ rObjects' = [rObjects EXCEPT ![1].k.ref = MakeRef(rObjects[1].k.value, rObjects[1].k.gen)]
    /\ UNCHANGED <<providerVars, rNamespaces, rCalls, delivered, rUpdates, rLast,
                   nOps, lastCall, retired, historyVars>>

\* item.toShallowRef() on the item 'k'
itemToShallowRef ==
    /\ ~rObjects[1].k.shallowRef.made
    /\ rObjects' = [rObjects EXCEPT
                       ![1].k.shallowRef = MakeRef(rObjects[1].k.value, rObjects[1].k.gen)]
    /\ UNCHANGED <<providerVars, rNamespaces, rCalls, delivered, rUpdates, rLast,
                   nOps, lastCall, retired, historyVars>>

\* item.applyPatch(patch) on the item 'k', as applyPatches calls it
itemApplyPatchWithRefs(patch) ==
    /\ Len(rLast.patches) < MaxApplies
    /\ LET r == applyPatchWithRefs(rObjects[1].k, patch) IN
       /\ rObjects' = [rObjects EXCEPT ![1].k = r.item]
       /\ rLast' = [rLast EXCEPT !.patches = Append(@, patch), !.threw = r.threw]
    /\ UNCHANGED <<providerVars, rNamespaces, rCalls, delivered, rUpdates,
                   nOps, lastCall, retired, historyVars>>

RefInit ==
    /\ ApplyIdle
    /\ \E mirror \in ApplyMirrors :
          rObjects = <<[namespace |-> "n1",
                        k |-> [value |-> mirror, gen |-> 1, ref |-> NoRef,
                               shallowRef |-> NoRef]]>>

RefNext ==
    \/ itemToRef
    \/ itemToShallowRef
    \/ \E patch \in ApplyPatchInputs : itemApplyPatchWithRefs(patch)

\* one consumer item under toRef, toShallowRef and applyPatch calls
RefSpec == RefInit /\ [][RefNext]_vars

\* the batches handed to SyncNamespaceReceiver.applyPatches: one or two patches
BatchInputs ==
    {<<p>> : p \in ApplyPatchInputs}
    \cup {<<p, q>> : p \in ApplyPatchInputs, q \in ApplyPatchInputs}

\* SyncReceiver.applyPatches('n1', patches) on the namespace holding item 'k'
namespaceApplyPatches(patches) ==
    /\ delivered["n1"] < MaxBatches
    /\ delivered' = [delivered EXCEPT !["n1"] = @ + 1]
    /\ LET r == applyPatches(rObjects[1], patches) IN
       /\ rObjects' = [rObjects EXCEPT ![1] = r.nsr]
       /\ rUpdates' = r.updates
       /\ rLast' = [namespace |-> "n1", patches |-> patches, object |-> 1,
                    threw |-> r.threw]
    /\ UNCHANGED <<providerVars, rNamespaces, rCalls, nOps, lastCall, retired, historyVars>>

BatchNext == \E patches \in BatchInputs : namespaceApplyPatches(patches)

\* batches applied to a namespace whose item 'k' starts from any mirror
BatchSpec == ApplyInit /\ [][BatchNext]_vars

(***************************************************************************)
(* The in-process wiring of the tests: snapshotGetter returns              *)
(* provider.getStateSnapshot(ns) and the 'update' listener calls           *)
(* receiver.applyPatches(ns, patches) while the batch is being emitted.    *)
(* getSnapshot hands out item.toValue(), the producer's own root (the      *)
(* proxy over it, or the root itself when it is not proxied): where the    *)
(* snapshot gave the consumer the root of the producer's item key, the     *)
(* consumer holds Ref(key), a reference that reads as the producer's root  *)
(* and writes through its proxy.  Roots are not replaced and the values    *)
(* written are primitives, so that a reference always names a current root *)
(* and no patch value is shared.                                           *)
(***************************************************************************)
Ref(key) == [k |-> "ref", key |-> key]

\* what the consumer reads where it holds v, roots being the producer's roots
Deref(roots, v) == IF v.k = "ref" THEN roots[v.key] ELSE v

Outer == Obj("a" :> Deep)

InProcessSyncInputs ==
    {SyncInput("n1", "k", v) : v \in {Hello, M1, S1, A1, D1, Outer}}
    \cup {SyncInput("n1", "a", v) : v \in {V1, Deep}}

\* SyncNamespaceProvider.getSnapshot, its entries by reference
getSnapshotInProcess(ns) ==
    Obj([key \in items[ns] |->
            IF isObject(value[ns][key]) THEN Ref(key) ELSE value[ns][key]])

\* the calls on the producer's handles that the utils make when the patch's
\* path leads into root: path[0] named the holder of the reference
ThroughCall(root, patch) ==
    LET n == Len(patch.path)
        lastKey == patch.path[n]
        parentPath == SubSeq(patch.path, 2, n - 1)
        fullPath == SubSeq(patch.path, 2, n)
        parent == NodeAt(root, parentPath)
        target == NodeAt(root, fullPath)
    IN IF patch.op = "set"
       THEN IF parent.k \in {"obj", "arr"}
            THEN <<Call(parentPath, "write", lastKey, patch.value)>>
            ELSE IF parent.k = "map"
            THEN <<Call(parentPath, "set", lastKey, patch.value)>>
            ELSE <<>>
       ELSE IF patch.op = "delete"
       THEN IF parent.k \in {"obj", "arr"}
            THEN <<Call(parentPath, "deleteProperty", lastKey, Undef)>>
            ELSE IF parent.k = "map"
            THEN <<Call(parentPath, "delete", lastKey, Undef)>>
            ELSE <<>>
       ELSE IF patch.op = "add"
       THEN IF target.k = "set" THEN <<Call(fullPath, "add", "", patch.value)>> ELSE <<>>
       ELSE IF target.k \in {"map", "set"}
       THEN <<Call(fullPath, "clear", "", Undef)>>
       ELSE <<>>

\* SyncNamespaceReceiver.applyPatches, first loop, with the producer's roots
\* of the namespace and the patches its proxies handed to onPatch meanwhile
RECURSIVE applyLoopInProcess(_, _, _, _, _)
applyLoopInProcess(nsr, roots, out, affected, patches) ==
    IF patches = <<>>
    THEN [nsr |-> nsr, roots |-> roots, out |-> out, affected |-> affected, threw |-> FALSE]
    ELSE LET patch == Head(patches)
             n == Len(patch.path)
             key == PatchItemKey(patch)
             synced == key \in nsr.items
             holder == IF synced THEN nsr.value[key] ELSE Member(nsr.snapshot, key)
             through == /\ n >= 1
                        /\ holder.k = "ref"
                        /\ \/ n >= 2
                           \/ ~synced /\ patch.op \in {"add", "clear"}
         IN IF through
            THEN LET root == roots[holder.key]
                     eff == mutateAll(root, holder.key, ThroughCall(root, patch))
                     i == AffectedIndex(affected, key)
                     aff == IF ~synced THEN affected
                            ELSE IF i = 0
                            THEN Append(affected, [key |-> key, oldVal |-> holder,
                                                   same |-> TRUE, patches |-> <<>>])
                            ELSE affected
                     j == IF i = 0 THEN Len(aff) ELSE i
                 IN IF /\ n >= 2
                       /\ patch.op = "set"
                       /\ setValueThrows(NodeAt(root, SubSeq(patch.path, 2, n - 1)))
                    THEN [nsr |-> nsr, roots |-> roots, out |-> out, affected |-> aff,
                          threw |-> TRUE]
                    ELSE applyLoopInProcess(
                             nsr,
                             [roots EXCEPT ![holder.key] = eff.target],
                             out \o eff.patches,
                             IF synced
                             THEN [aff EXCEPT ![j].patches = Append(@, patch)]
                             ELSE aff,
                             Tail(patches))
            ELSE LET r == applyLoop(nsr, affected, <<patch>>) IN
                 IF r.threw
                 THEN [nsr |-> r.nsr, roots |-> roots, out |-> out,
                       affected |-> r.affected, threw |-> TRUE]
                 ELSE applyLoopInProcess(r.nsr, roots, out, r.affected, Tail(patches))

applyPatchesInProcess(nsr, roots, patches) ==
    LET r == applyLoopInProcess(nsr, roots, <<>>, <<>>, patches) IN
    [nsr |-> r.nsr, roots |-> r.roots, out |-> r.out,
     updates |-> IF r.threw THEN <<>> ELSE Notifications(r.nsr, r.affected),
     threw |-> r.threw]

\* one mutating call, writing a primitive, on a handle read from item.toValue()
proxyCallPrimitive(ns, key) ==
    /\ nOps < MaxOps
    /\ key \in items[ns]
    /\ \E c \in {x \in ProxyCalls(value[ns][key]) :
                     x.call = "setTime" \/ ~isObject(x.value)} :
          LET eff == mutate(value[ns][key], key, c) IN
          /\ value' = [value EXCEPT ![ns][key] = eff.target]
          /\ Enqueue(ns, eff.patches)
          /\ Called("mutate", ns, key, c, FALSE)
    /\ UNCHANGED <<namespaces, items, busRegister, busUpdate, receiverVars>>

\* the snapshotGetter of call c, returning provider.getStateSnapshot(ns)
getStateSnapshotInProcess(c) ==
    /\ c \in 1..Len(rCalls)
    /\ rCalls[c].stage = "awaiting"
    /\ LET namespace == rCalls[c].namespace IN
       rCalls' = [rCalls EXCEPT ![c] =
          IF namespace \notin namespaces
          THEN RegisterCall(namespace, "rejected", Undef, 0)
          ELSE RegisterCall(namespace, "fetched", getSnapshotInProcess(namespace), 0)]
    /\ window' = Fetched(c)
    /\ UNCHANGED <<providerVars, rObjects, rNamespaces, delivered, rUpdates, rLast,
                   nOps, lastCall, retired, rApplied, emitted, cycle>>

\* the state after a flush that found the scheduler in sched, published
\* batch and ran the listener on the namespace object o with result a,
\* leaving the scheduler in s
Listened(ns, o, batch, a, s) ==
    /\ queuedPatches' = [queuedPatches EXCEPT ![ns] = s.queuedPatches]
    /\ emitTimeout' = [emitTimeout EXCEPT ![ns] = s.emitTimeout]
    /\ timers' = [timers EXCEPT ![ns] = s.timers]
    /\ busUpdate' = [busUpdate EXCEPT ![ns] = Append(@, batch)]
    /\ delivered' = [delivered EXCEPT ![ns] = @ + 1]
    /\ value' = [value EXCEPT ![ns] = a.roots]
    /\ emitted' = [emitted EXCEPT ![ns] = @ \o a.out]
    /\ cycle' = [cycle EXCEPT ![ns] = a.out]
    /\ rApplied' = [rApplied EXCEPT ![ns] = @ + 1]
    /\ rObjects' = [rObjects EXCEPT ![o] = a.nsr]
    /\ rUpdates' = a.updates
    /\ rLast' = [namespace |-> ns, patches |-> batch, object |-> o, threw |-> a.threw]
    /\ UNCHANGED window

\* the state after a flush that published nothing or found no listener's
\* namespace
Unheard(ns, r) ==
    /\ queuedPatches' = [queuedPatches EXCEPT ![ns] = r.sched.queuedPatches]
    /\ emitTimeout' = [emitTimeout EXCEPT ![ns] = r.sched.emitTimeout]
    /\ timers' = [timers EXCEPT ![ns] = r.sched.timers]
    /\ busUpdate' = [busUpdate EXCEPT ![ns] = @ \o r.published]
    /\ delivered' = [delivered EXCEPT ![ns] = @ + Len(r.published)]
    /\ cycle' = [cycle EXCEPT ![ns] = <<>>]
    /\ rUpdates' = <<>>
    /\ rLast' = IF r.published = <<>> THEN rLast
                ELSE [namespace |-> ns, patches |-> r.published[1],
                      object |-> 0, threw |-> FALSE]
    /\ window' = IF r.published = <<>> THEN window
                 ELSE Dropped(ns, Len(busUpdate[ns]) + 1)
    /\ UNCHANGED <<value, emitted, rApplied, rObjects>>

\* a flush that emits before it resets the queue: the reset wipes what the
\* listener enqueued
ListenedBeforeReset(ns, o, sched, batch, a) == Listened(ns, o, batch, a, sched)

\* what the listener did, and the scheduler after the patches it caused
ListenedWith(ns, o, sched, batch, a) == Listened(ns, o, batch, a, onPatch(sched, a.out))

\* the deferred task: emitPatches, whose bus.emit('update', ...) runs the
\* listener, receiver.applyPatches, before it returns
emitPatchesInProcess(ns) ==
    /\ timers[ns] > 0
    /\ IF emitPatchesResult(Sched(ns)).published = <<>> \/ rNamespaces[ns] = 0
       THEN Unheard(ns, emitPatchesResult(Sched(ns)))
       ELSE ListenedWith(ns, rNamespaces[ns], emitPatchesResult(Sched(ns)).sched,
                         queuedPatches[ns],
                         applyPatchesInProcess(rObjects[rNamespaces[ns]], value[ns],
                                               queuedPatches[ns]))
    /\ UNCHANGED <<namespaces, items, busRegister, nOps, lastCall, retired, rNamespaces, rCalls>>

InProcessNext ==
    \/ \E ns \in NsNames : register(ns)
    \/ \E i \in InProcessSyncInputs : sync(i.ns, i.key, i.initialValue)
    \/ \E ns \in NsNames, key \in Keys : proxyCallPrimitive(ns, key)
    \/ \E ns \in NsNames : emitPatchesInProcess(ns)
    \/ \E ns \in ReceiverNames : receiverRegister(ns)
    \/ \E c \in 1..MaxRegisters : getStateSnapshotInProcess(c)
    \/ \E c \in 1..MaxRegisters : receiverRegistered(c)
    \/ \E o \in 1..MaxRegisters, key \in Keys : receiverSync(o, key)

InProcessSpec == Init /\ [][InProcessNext]_vars

(***************************************************************************)
(* A caller that keeps the handle toValue() returned across a set().  The  *)
(* old proxy was built by createDeepProxy(oldVal, key, [], this.onPatch)   *)
(* and keeps that key and that onPatch.                                    *)
(***************************************************************************)
\* h = item.toValue(); item.set(val)
itemSetKeepingHandle(ns, key, val) ==
    /\ nOps < MaxOps
    /\ key \in items[ns]
    /\ shouldProxy(value[ns][key])
    /\ LET eff == set(value[ns][key], key, val) IN
       /\ value' = [value EXCEPT ![ns][key] = eff.target]
       /\ Enqueue(ns, eff.patches)
    /\ retired' = [retired EXCEPT ![ns][key] = value[ns][key]]
    /\ Recorded("set", ns, key, val, FALSE)
    /\ UNCHANGED <<namespaces, items, busRegister, busUpdate, receiverVars>>

\* a mutating call on h, or on a container reached through h, after the set
staleCall(ns, key) ==
    /\ nOps < MaxOps
    /\ key \in items[ns]
    /\ retired[ns][key] # Undef
    /\ \E c \in ProxyCalls(retired[ns][key]) :
          LET eff == mutate(retired[ns][key], key, c) IN
          /\ retired' = [retired EXCEPT ![ns][key] = eff.target]
          /\ Enqueue(ns, eff.patches)
          /\ Recorded("stale", ns, key, c, FALSE)
    /\ UNCHANGED <<namespaces, items, value, busRegister, busUpdate, receiverVars>>

HandleNext ==
    \/ \E ns \in NsNames : register(ns)
    \/ \E i \in SyncInputs : sync(i.ns, i.key, i.initialValue)
    \/ \E ns \in NsNames, key \in Keys, v \in SetValues :
          itemSetKeepingHandle(ns, key, v)
    \/ \E ns \in NsNames, key \in Keys : staleCall(ns, key)
    \/ \E ns \in NsNames, key \in Keys : proxyCall(ns, key)
    \/ \E ns \in NsNames : emitPatches(ns)

\* the producer with a caller that keeps handles of replaced roots
HandleSpec == Init /\ [][HandleNext]_vars

(***************************************************************************)
(* Claims.                                                                 *)
(***************************************************************************)
RECURSIVE Flatten(_)
Flatten(batches) ==
    IF batches = <<>> THEN <<>> ELSE Head(batches) \o Flatten(Tail(batches))

\* the step is a run of the deferred task of ns
FlushStep(ns) == timers'[ns] < timers[ns]

\* the step is a run of the deferred task of ns that published a batch
PublishStep(ns) == Len(busUpdate'[ns]) = Len(busUpdate[ns]) + 1

\* the step is the producer-side call op
CallStep(op) == nOps' # nOps /\ lastCall'.op = op

C3_OrderedNoLossNoDup ==
    \A ns \in NsNames : Flatten(busUpdate[ns]) \o queuedPatches[ns] = emitted[ns]

\* two batches published and a further patch queued
C3_Witness ==
    \E ns \in NsNames :
        /\ Len(busUpdate[ns]) >= 2
        /\ queuedPatches[ns] # <<>>
        /\ Len(emitted[ns]) >= 3

\* C5: item.set(v) with a concrete v makes v the root and appends exactly the
\* patch {set, key, [], v} to the queue of the item's namespace
C5_SetConcreteValue ==
    [][CallStep("set") =>
          LET ns == lastCall'.ns
              key == lastCall'.key
              v == lastCall'.arg
          IN /\ value'[ns][key] = v
             /\ queuedPatches'[ns] = Append(queuedPatches[ns], Patch("set", key, <<>>, v))
             /\ \A other \in NsNames \ {ns} : queuedPatches'[other] = queuedPatches[other]]_vars

\* set(Hello) has replaced a root and its patch follows another in the queue
C5_Witness ==
    /\ lastCall.op = "set"
    /\ lastCall.arg = Hello
    /\ value[lastCall.ns][lastCall.key] = Hello
    /\ Len(queuedPatches[lastCall.ns]) >= 2
    /\ queuedPatches[lastCall.ns][Len(queuedPatches[lastCall.ns])]
          = Patch("set", lastCall.key, <<>>, Hello)

\* the patch of one field write or field delete made on a handle of item key
CallPatch(key, c) ==
    IF c.call = "write"
    THEN Patch("set", key, c.path \o <<c.arg>>, c.value)
    ELSE Patch("delete", key, c.path \o <<c.arg>>, Undef)

\* C8 as stated: the updater is handed the raw root, so the in-place mutations
\* of an updater that returns nothing enqueue no patch
C8_UpdaterBypassesObservation ==
    [][(CallStep("update") /\ lastCall'.arg.ret = Undef) =>
          queuedPatches'[lastCall'.ns] = queuedPatches[lastCall'.ns]]_vars

\* C8 amended: the updater is handed the item's stored value, the observed
\* root: each field write or delete it makes on its argument enqueues its patch
C8_UpdaterIsObserved ==
    [][(CallStep("update") /\ lastCall'.arg.ret = Undef) =>
          LET u == lastCall'.arg
              ns == lastCall'.ns
          IN queuedPatches'[ns] =
                queuedPatches[ns] \o [i \in 1..Len(u.calls) |-> CallPatch(lastCall'.key, u.calls[i])]]_vars

\* an updater that wrote two fields in place and returned nothing has run
C8_Witness ==
    /\ lastCall.op = "update"
    /\ lastCall.arg.ret = Undef
    /\ Len(lastCall.arg.calls) = 2
    /\ Len(queuedPatches[lastCall.ns]) >= 2

\* C9: sync(key) on a namespace that has key throws, and leaves the items, their
\* roots, the queue and the schedule handle as they were
C9_DuplicateSyncFails ==
    [][(CallStep("sync") /\ lastCall'.key \in items[lastCall'.ns]) =>
          /\ lastCall'.threw
          /\ UNCHANGED <<items, value, queuedPatches, emitTimeout, timers>>]_vars

\* a duplicate sync with an initial value was refused with a patch in the queue
C9_Witness ==
    /\ lastCall.op = "sync"
    /\ lastCall.threw
    /\ lastCall.arg # Undef
    /\ lastCall.arg # value[lastCall.ns][lastCall.key]
    /\ queuedPatches[lastCall.ns] # <<>>

Count(seq, x) == Cardinality({i \in 1..Len(seq) : seq[i] = x})

\* C10: register(name) of a registered name changes nothing of the producer;
\* of a new name it adds the namespace and emits 'register' once; so each name
\* is announced once if registered and never otherwise
C10_RegisterIdempotent ==
    /\ [](\A n \in NsNames : Count(busRegister, n) = IF n \in namespaces THEN 1 ELSE 0)
    /\ [][CallStep("register") =>
             LET n == lastCall'.ns IN
             IF n \in namespaces
             THEN UNCHANGED providerVars
             ELSE /\ namespaces' = namespaces \cup {n}
                  /\ busRegister' = Append(busRegister, n)]_vars

\* register was called again on a namespace that has an item and a queued patch
C10_Witness ==
    /\ lastCall.op = "register"
    /\ lastCall.ns \in namespaces
    /\ items[lastCall.ns] # {}
    /\ queuedPatches[lastCall.ns] # <<>>

(***************************************************************************)
(* Consumer-side claims.                                                   *)
(***************************************************************************)
\* the step applies the next published batch of ns to a registered consumer
ApplyStep(ns) == delivered'[ns] = delivered[ns] + 1 /\ rNamespaces[ns] # 0

\* the patches of a batch addressed to item key, in their order
PatchesOf(batch, key) == SelectSeq(batch, LAMBDA p : p.key = key)

\* every patch issued in ns has been published, delivered and applied by the
\* consumer's namespace object
AllApplied(ns) ==
    /\ rNamespaces[ns] # 0
    /\ queuedPatches[ns] = <<>>
    /\ delivered[ns] = Len(busUpdate[ns])
    /\ rApplied[ns] = Len(busUpdate[ns])

\* C1: once every batch of a namespace has been delivered and applied, in
\* order, to a consumer that registered it, the mirror of each item the
\* consumer synced equals the producer's root of that item
C1_Convergence ==
    \A ns \in ReceiverNames :
        AllApplied(ns) =>
            \A key \in rObjects[rNamespaces[ns]].items \cap items[ns] :
                rObjects[rNamespaces[ns]].value[key] = value[ns][key]

\* C4: applying a batch raises, for each synced item, exactly one 'update'
\* carrying the item's patches of the batch in order if the batch has any, and
\* none otherwise
C4_OneUpdatePerItem ==
    [][\A ns \in ReceiverNames :
          ApplyStep(ns) =>
              LET batch == busUpdate[ns][delivered'[ns]] IN
              \A key \in rObjects[rNamespaces[ns]].items :
                  LET mine == PatchesOf(batch, key)
                      notes == SelectSeq(rUpdates', LAMBDA u : u.key = key)
                  IN IF mine # <<>>
                     THEN Len(notes) = 1 /\ notes[1].patches = mine
                     ELSE notes = <<>>]_vars

\* C6: when the last patch a batch addresses to a synced item is a set with
\* an empty path, applying the batch leaves the item's mirror equal to that
\* patch's value and raises the item's 'update'
C6_RootSetReplacesMirror ==
    [][\A ns \in ReceiverNames :
          ApplyStep(ns) =>
              LET batch == busUpdate[ns][delivered'[ns]] IN
              \A key \in rObjects[rNamespaces[ns]].items :
                  LET mine == PatchesOf(batch, key) IN
                  (mine # <<>> /\ mine[Len(mine)].op = "set" /\ mine[Len(mine)].path = <<>>) =>
                      /\ rObjects'[rNamespaces[ns]].value[key] = mine[Len(mine)].value
                      /\ \E i \in 1..Len(rUpdates') : rUpdates'[i].key = key]_vars

\* the slot a field write or field delete of an updater addresses
CallSlot(c) == c.path \o <<c.arg>>

\* C7: after an updater that returned nothing wrote or deleted fields of its
\* argument and every batch has been applied, each slot it touched reads the
\* same in the consumer's mirror as in the producer's root
C7_UpdaterMutationsReachMirror ==
    (/\ lastCall.op = "update"
     /\ lastCall.arg.ret = Undef
     /\ lastCall.ns \in ReceiverNames
     /\ AllApplied(lastCall.ns)
     /\ lastCall.key \in rObjects[rNamespaces[lastCall.ns]].items) =>
        \A i \in 1..Len(lastCall.arg.calls) :
            LET slot == CallSlot(lastCall.arg.calls[i]) IN
            navigatePath(rObjects[rNamespaces[lastCall.ns]].value[lastCall.key],
                         slot, 0, Len(slot))
              = navigatePath(value[lastCall.ns][lastCall.key], slot, 0, Len(slot))

\* C11: every register(name) call that has resolved returned the namespace
\* object the consumer holds for name, the one later batches are applied to;
\* so all calls for a name resolve to the same object
C11_RegisterSameObject ==
    \A c \in 1..Len(rCalls) :
        rCalls[c].stage = "resolved" =>
            rCalls[c].result = rNamespaces[rCalls[c].namespace]

\* the last producer-side call was a method call on an observed container of
\* the given kind, of an item of a namespace whose batches have all been
\* applied by a consumer that synced the item
ContainerCallApplied(kind) ==
    /\ lastCall.op = "mutate"
    /\ lastCall.ns \in ReceiverNames
    /\ AllApplied(lastCall.ns)
    /\ lastCall.key \in rObjects[rNamespaces[lastCall.ns]].items
    /\ navigatePath(value[lastCall.ns][lastCall.key], lastCall.arg.path,
                    0, Len(lastCall.arg.path)).k = kind

\* the container of the last call as the consumer's mirror has it
MirrorContainer ==
    navigatePath(rObjects[rNamespaces[lastCall.ns]].value[lastCall.key],
                 lastCall.arg.path, 0, Len(lastCall.arg.path))

\* the container of the last call as the producer's root has it
RootContainer ==
    navigatePath(value[lastCall.ns][lastCall.key], lastCall.arg.path,
                 0, Len(lastCall.arg.path))

\* C12: after map.set, map.delete or map.clear on an observed map has been
\* delivered and applied, the mirror's map has the keys and values of the
\* producer's map
C12_MapRoundTrip ==
    ContainerCallApplied("map") => MirrorContainer = RootContainer

\* C13: after set.add, set.delete or set.clear on an observed set has been
\* delivered and applied, the mirror's set has the elements of the producer's
\* set (so a delete removed the element, not the set)
C13_SetRoundTrip ==
    ContainerCallApplied("set") => MirrorContainer = RootContainer

\* C14: after a push or a splice from the middle on an observed array has
\* been delivered and applied, the mirror's array has the length and the
\* elements, in order, of the producer's array
C14_SequenceRoundTrip ==
    ContainerCallApplied("arr") => MirrorContainer = RootContainer

\* the step is a call made through a handle of an item: the given call,
\* handing over a value of the given kind
HandleStep(call, kind) ==
    /\ CallStep("mutate")
    /\ lastCall'.arg.call = call
    /\ lastCall'.arg.value.k = kind

\* C15: changing a date in place enqueues no patch and leaves the consumer's
\* mirrors as they were; assigning a new date at its path enqueues exactly
\* one set patch for that path and, once every batch has been applied, the
\* mirror holds the new date there
C15_OpaqueLeaf ==
    /\ [][HandleStep("setTime", "date") =>
             /\ queuedPatches' = queuedPatches
             /\ rObjects' = rObjects]_vars
    /\ [][HandleStep("write", "date") =>
             queuedPatches'[lastCall'.ns] =
                 Append(queuedPatches[lastCall'.ns],
                        Patch("set", lastCall'.key, CallSlot(lastCall'.arg),
                              lastCall'.arg.value))]_vars
    /\ []((/\ lastCall.op = "mutate"
           /\ lastCall.arg.call = "write"
           /\ lastCall.arg.value.k = "date"
           /\ lastCall.ns \in ReceiverNames
           /\ AllApplied(lastCall.ns)
           /\ lastCall.key \in rObjects[rNamespaces[lastCall.ns]].items) =>
              navigatePath(rObjects[rNamespaces[lastCall.ns]].value[lastCall.key],
                           CallSlot(lastCall.arg), 0, Len(CallSlot(lastCall.arg)))
                = lastCall.arg.value)

\* the parent of the slot a set or delete patch addresses, or the container an
\* add or clear patch addresses, does not resolve in the mirror
ParentMissing(mirror, patch) ==
    IF patch.op \in {"add", "clear"}
    THEN navigatePath(mirror, patch.path, 0, Len(patch.path)) = Undef
    ELSE /\ Len(patch.path) >= 1
         /\ navigatePath(mirror, patch.path, 0, Len(patch.path) - 1) = Undef

\* C16: when the first patch of a batch addresses a synced item in whose
\* mirror its parent does not resolve, applying the batch does not raise and
\* leaves the mirrors and the buffered snapshot as applying the rest of the
\* batch alone leaves them
C16_MissingParentDropped ==
    [][\A ns \in ReceiverNames :
          ApplyStep(ns) =>
              LET o == rNamespaces[ns]
                  batch == busUpdate[ns][delivered'[ns]]
              IN (/\ Head(batch).key \in rObjects[o].items
                  /\ ParentMissing(rObjects[o].value[Head(batch).key], Head(batch))) =>
                     /\ ~rLast'.threw
                     /\ rObjects'[o] = applyPatches(rObjects[o], Tail(batch)).nsr]_vars


\* the step is the first sync(key) on the namespace object o
SyncStep(o, key) ==
    /\ o \in 1..Len(rObjects)
    /\ key \notin rObjects[o].items
    /\ key \in rObjects'[o].items

\* C17: when every batch of a namespace was applied to the consumer's
\* namespace object before the consumer first syncs an item of it, that first
\* sync returns a mirror equal to the producer's root of the item, also after
\* a patch that replaced the whole item
C17_UnsyncedPatchesKept ==
    [][\A ns \in ReceiverNames : \A key \in Keys :
          (/\ AllApplied(ns)
           /\ key \in items[ns]
           /\ delivered[ns] > 0
           /\ SyncStep(rNamespaces[ns], key)) =>
              rObjects'[rNamespaces[ns]].value[key] = value[ns][key]]_vars


\* the step hands item 'k' the patch the step before handed it
SecondApplication ==
    /\ rLast.patches # <<>>
    /\ Len(rLast'.patches) = Len(rLast.patches) + 1
    /\ rLast'.patches[Len(rLast'.patches)] = rLast.patches[Len(rLast.patches)]

\* C18: for every mirror and every patch, applying the patch a second time
\* right after the first leaves the mirror as the first application left it,
\* and the second application does not raise
C18_IdempotentApplication ==
    [][SecondApplication => (rObjects' = rObjects /\ ~rLast'.threw)]_vars


\* C19: a namespace.sync(key, initialValue) that succeeds installs the value
\* and neither enqueues a patch nor schedules a flush: the namespace's queue,
\* its schedule handle and its pending timers are as they were before the call
C19_SyncDoesNotPublish ==
    [][\A ns \in NsNames :
          (/\ CallStep("sync")
           /\ lastCall'.ns = ns
           /\ ~lastCall'.threw
           /\ lastCall'.arg # Undef) =>
              /\ value'[ns][lastCall'.key] = lastCall'.arg
              /\ queuedPatches'[ns] = queuedPatches[ns]
              /\ emitTimeout'[ns] = emitTimeout[ns]
              /\ timers'[ns] = timers[ns]]_vars


\* the item keys the patches of a batch name
KeysNamed(batch) == {batch[i].key : i \in 1..Len(batch)}

\* C20: applying a batch changes no mirror and no buffered snapshot entry of
\* an item that no patch of the batch names by its key field, and a set patch
\* applied alone to a synced item whose root holds the patch's parent
\* container leaves the patch's value at the patch's path under that root
C20_RoutedByKeyField ==
    [][\A ns \in ReceiverNames :
          ApplyStep(ns) =>
              LET o == rNamespaces[ns]
                  batch == busUpdate[ns][delivered'[ns]]
                  p == Head(batch)
                  n == Len(p.path)
              IN /\ \A key \in Keys \ KeysNamed(batch) :
                        rObjects'[o].value[key] = rObjects[o].value[key]
                 /\ \A x \in (DOMAIN rObjects[o].snapshot.f
                              \cup DOMAIN rObjects'[o].snapshot.f) \ KeysNamed(batch) :
                        Member(rObjects'[o].snapshot, x) = Member(rObjects[o].snapshot, x)
                 /\ (/\ Len(batch) = 1
                     /\ p.key \in rObjects[o].items
                     /\ p.op = "set"
                     /\ n >= 1
                     /\ navigatePath(rObjects[o].value[p.key], p.path, 0, n - 1).k
                            \in {"obj", "map"}) =>
                        navigatePath(rObjects'[o].value[p.key], p.path, 0, n) = p.value]_vars


(***************************************************************************)
(* Scheduler claims.                                                       *)
(***************************************************************************)
\* some patch handed to onPatch in ns is in no published batch yet
Unpublished(ns) == Len(Flatten(busUpdate[ns])) < Len(emitted[ns])

\* C21: a non-empty queue always has a flush scheduled, and when the host runs
\* its timers every patch enqueued in a namespace is eventually in a
\* published batch
C21_FlushLiveness ==
    /\ [](\A ns \in NsNames :
             queuedPatches[ns] # <<>> => (emitTimeout[ns] /\ timers[ns] > 0))
    /\ \A ns \in NsNames : Unpublished(ns) ~> (Flatten(busUpdate[ns]) = emitted[ns])

\* patches of two separate flushes have all been published
C21_Witness ==
    \E ns \in NsNames :
        /\ Len(busUpdate[ns]) >= 2
        /\ Flatten(busUpdate[ns]) = emitted[ns]
        /\ timers[ns] = 0


\* C22: a snapshot request for a namespace the producer never registered
\* fails, and the consumer's sync(key) hands out a mirror only for a key its
\* namespace snapshot contains
C22_UnregisteredFails ==
    [][/\ \A c \in 1..Len(rCalls) :
             (/\ rCalls[c].stage = "awaiting"
              /\ rCalls'[c].stage # "awaiting"
              /\ rCalls[c].namespace \notin namespaces) =>
                 rCalls'[c].stage = "rejected"
       /\ \A o \in 1..Len(rObjects) : \A key \in Keys :
             SyncStep(o, key) => key \in DOMAIN rObjects[o].snapshot.f]_vars


\* what toValue() of the consumer's mirror of key reads as: the value the mirror
\* holds, or the producer's root where the mirror holds a reference to it
MirrorValue(ns, key) == Deref(value[ns], rObjects[rNamespaces[ns]].value[key])

\* C23: the value of a synced item's mirror changes only in a step that
\* applies a batch at the consumer; a producer mutation whose batch has not
\* been delivered leaves it as it was, also with the in-process wiring
C23_MirrorAdvancedByPatchesOnly ==
    [][\A ns \in ReceiverNames : \A key \in Keys :
          (/\ rNamespaces[ns] # 0
           /\ key \in rObjects[rNamespaces[ns]].items
           /\ ~ApplyStep(ns)) =>
              MirrorValue(ns, key)' = MirrorValue(ns, key)]_vars


\* the last producer-side call was map.set on the map that iterating the
\* observed set at a path of item key's root handed out
ElementCall(ns, key) ==
    /\ lastCall.op = "mutate"
    /\ lastCall.ns = ns
    /\ lastCall.key = key
    /\ lastCall.arg.call = "elementSet"

\* C24: map.set on a map reached by iterating an observed set nested in an
\* item's root enqueues a patch, and once every batch has been applied the
\* set in the consumer's mirror of the item equals the producer's
C24_SetElementMutationSynced ==
    /\ [][\A ns \in NsNames : \A key \in Keys :
             (CallStep("mutate") /\ ElementCall(ns, key)') =>
                 Len(queuedPatches'[ns]) > Len(queuedPatches[ns])]_vars
    /\ [](\A ns \in ReceiverNames : \A key \in Keys :
             (/\ ElementCall(ns, key)
              /\ AllApplied(ns)
              /\ key \in rObjects[rNamespaces[ns]].items) =>
                 NodeAt(rObjects[rNamespaces[ns]].value[key], lastCall.arg.path)
                     = NodeAt(value[ns][key], lastCall.arg.path))


\* C25: the oldValue of every 'update' that applying a batch raises is the
\* value the item's mirror had before the first patch of the batch, also
\* when the batch changed the mirror in place; it differs from newValue
\* whenever the batch changed the mirror
C25_OldValueIsPreBatch ==
    [][\A ns \in ReceiverNames :
          ApplyStep(ns) =>
              \A i \in 1..Len(rUpdates') :
                  LET before == rObjects[rNamespaces[ns]].value[rUpdates'[i].key]
                      after == rObjects'[rNamespaces[ns]].value[rUpdates'[i].key]
                  IN /\ rUpdates'[i].oldValue = before
                     /\ after # before => rUpdates'[i].oldValue # rUpdates'[i].newValue]_vars


\* the step hands at least one patch of ns to onPatch
EnqueueStep(ns) == Len(emitted'[ns]) > Len(emitted[ns])

\* C26: a namespace never has more than one flush pending; a step that
\* enqueues schedules exactly one flush when it is the first to enqueue since
\* the last flush and none otherwise, and appends its patches to the queue
C26_OneFlushPending ==
    /\ [](\A ns \in NsNames : timers[ns] <= 1)
    /\ [][\A ns \in NsNames :
             EnqueueStep(ns) =>
                 /\ timers'[ns] = (IF cycle[ns] = <<>> THEN timers[ns] + 1 ELSE timers[ns])
                 /\ queuedPatches'[ns] =
                        queuedPatches[ns]
                            \o SubSeq(emitted'[ns], Len(emitted[ns]) + 1, Len(emitted'[ns]))]_vars

\* after a flush, three patches from more than one call wait for one flush
C26_Witness ==
    \E ns \in NsNames :
        /\ busUpdate[ns] # <<>>
        /\ Len(queuedPatches[ns]) >= 3
        /\ timers[ns] = 1
        /\ lastCall.op = "mutate"


\* C27: after every flush the namespace's queue is empty and its schedule
\* handle is cleared, and the first enqueue after a flush schedules a new
\* flush
C27_FlushTakesQueueAndHandle ==
    [][\A ns \in NsNames :
          /\ FlushStep(ns) =>
                 /\ queuedPatches'[ns] = <<>>
                 /\ ~emitTimeout'[ns]
                 /\ timers'[ns] = 0
          /\ (EnqueueStep(ns) /\ busUpdate[ns] # <<>> /\ cycle[ns] = <<>>) =>
                 (emitTimeout'[ns] /\ timers'[ns] = 1)]_vars

\* a flush ran and a set() after it has one patch waiting for a new flush
C27_Witness ==
    \E ns \in NsNames :
        /\ Len(busUpdate[ns]) >= 1
        /\ Len(queuedPatches[ns]) = 1
        /\ emitTimeout[ns]
        /\ lastCall.op = "set"


\* C28: no published 'update' batch is empty
C28_NoEmptyBatch ==
    \A ns \in NsNames : \A i \in 1..Len(busUpdate[ns]) : busUpdate[ns][i] # <<>>

\* three batches have been published in one namespace
C28_Witness == \E ns \in NsNames : Len(busUpdate[ns]) >= 3


\* the patches the step handed to onPatch in ns
Enqueued(ns) == SubSeq(emitted'[ns], Len(emitted[ns]) + 1, Len(emitted'[ns]))

\* C29: when the 'update' listener mutates the producer while a batch is
\* being published, the batch is the queue as the flush found it, the new
\* patches are the queue afterwards with a new flush scheduled, and what is
\* published is always the patches enqueued first, in their order, so that
\* the new patches are published only after every patch of that batch
C29_ReentrantMutation ==
    /\ [][\A ns \in NsNames :
             (PublishStep(ns) /\ EnqueueStep(ns)) =>
                 /\ busUpdate'[ns] = Append(busUpdate[ns], queuedPatches[ns])
                 /\ queuedPatches'[ns] = Enqueued(ns)
                 /\ emitTimeout'[ns]
                 /\ timers'[ns] = 1]_vars
    /\ [](\A ns \in NsNames : Flatten(busUpdate[ns]) \o queuedPatches[ns] = emitted[ns])

\* the only mutating call was made on item k, and the write the listener made
\* on item a while k's batch was published has been published in a later batch
C29_Witness ==
    \E ns \in NsNames :
        /\ nOps = 4
        /\ lastCall.op = "mutate"
        /\ lastCall.key = "k"
        /\ value[ns]["a"] = Obj("v" :> V2)
        /\ queuedPatches[ns] = <<>>
        /\ Len(busUpdate[ns]) >= 2
        /\ busUpdate[ns][Len(busUpdate[ns])] = <<Patch("set", "a", <<"v">>, V2)>>

\* C30: item.set(newRoot) retires the old observed wrapper: a mutation made
\* through a handle obtained before the set enqueues no patch for the item
\* and schedules no flush, so nothing a write to the old root produces can
\* reach the consumer's mirror of the new root.
C30_OldHandleRetired ==
    [][\A ns \in NsNames :
          CallStep("stale") /\ lastCall'.ns = ns =>
             /\ queuedPatches'[ns] = queuedPatches[ns]
             /\ emitted'[ns] = emitted[ns]
             /\ timers'[ns] = timers[ns]]_vars

\* the patches the step enqueued for ns
NewPatches(ns) == SubSeq(emitted'[ns], Len(emitted[ns]) + 1, Len(emitted'[ns]))

\* the whole-item patches among patches
WholeItem(patches) == { i \in 1..Len(patches) : patches[i].path = <<>> }

\* C31: item.set(updater) enqueues a whole-item set patch if and only if the
\* updater returns a value other than 'no value'; the patch's value and the
\* new root are then the returned value.  An updater that returns nothing
\* enqueues no whole-item patch and leaves the item's root in place, changed
\* only by what the updater did to it.
C31_UpdaterReturn ==
    [][\A ns \in NsNames, key \in Keys :
          CallStep("update") /\ lastCall'.ns = ns /\ lastCall'.key = key =>
             IF lastCall'.arg.ret # Undef
             THEN /\ WholeItem(NewPatches(ns)) = {Len(NewPatches(ns))}
                  /\ NewPatches(ns)[Len(NewPatches(ns))]
                        = Patch("set", key, <<>>, lastCall'.arg.ret)
                  /\ value'[ns][key] = lastCall'.arg.ret
             ELSE /\ WholeItem(NewPatches(ns)) = {}
                  /\ value'[ns][key]
                        = invokeUpdaterRaw(value[ns][key], key, lastCall'.arg).target
                  /\ lastCall'.arg.calls = <<>> => value'[ns][key] = value[ns][key]]_vars

C31_Witness ==
    /\ lastCall.op = "update"
    /\ lastCall.arg.ret = V2
    /\ value[lastCall.ns][lastCall.key] = V2
    /\ queuedPatches[lastCall.ns] # <<>>
    /\ queuedPatches[lastCall.ns][Len(queuedPatches[lastCall.ns])]
          = Patch("set", lastCall.key, <<>>, V2)

\* the step is a map or set method called on the handle over the container
\* at lastCall'.arg.path of item key
ContainerCall(ns, key) ==
    /\ CallStep("mutate")
    /\ lastCall'.ns = ns
    /\ lastCall'.key = key
    /\ NodeAt(value[ns][key], lastCall'.arg.path).k \in {"map", "set"}
    /\ lastCall'.arg.call \in {"set", "delete", "clear", "add"}

\* C32: a map or set mutating call that does not change the container
\* (map.delete of an absent key, set.delete of an absent element, set.add of
\* a present element, clear of an empty map or set) enqueues no patch; a call
\* that changes it, and every map.set, enqueues exactly one patch, of the
\* call's operation, in the step that makes the change.
C32_OnePatchPerChange ==
    [][\A ns \in NsNames, key \in Keys :
          ContainerCall(ns, key) =>
             IF \/ lastCall'.arg.call = "set"
                \/ NodeAt(value'[ns][key], lastCall'.arg.path)
                      # NodeAt(value[ns][key], lastCall'.arg.path)
             THEN /\ Len(NewPatches(ns)) = 1
                  /\ NewPatches(ns)[1].op = lastCall'.arg.call
                  /\ NewPatches(ns)[1].key = key
             ELSE NewPatches(ns) = <<>>]_vars

\* a delete of an absent key was made on a map and left the queue as it was
C32_Witness ==
    /\ lastCall.op = "mutate"
    /\ lastCall.arg.call = "delete"
    /\ lastCall.arg.arg = NewField
    /\ value[lastCall.ns][lastCall.key] = M1
    /\ queuedPatches[lastCall.ns] = <<Patch("set", lastCall.key, <<>>, M1)>>

\* all but the last step of a non-empty path
Parent(path) == SubSeq(path, 1, Len(path) - 1)

\* followed from root, the path of patch p leads to what the patch reports:
\* the slot holding the value set, the slot deleted, or the set or map that
\* was added to, deleted from or cleared
Addresses(root, p) ==
    IF p.op = "set"
    THEN p.path # <<>> /\ NodeAt(root, p.path) = p.value
    ELSE IF p.op = "add"
    THEN isObject(NodeAt(root, p.path)) /\ NodeAt(root, p.path).k = "set"
         /\ p.value \in NodeAt(root, p.path).e
    ELSE IF p.op = "clear"
    THEN isObject(NodeAt(root, p.path))
         /\ \/ NodeAt(root, p.path).k = "set" /\ NodeAt(root, p.path).e = {}
            \/ NodeAt(root, p.path).k = "map" /\ DOMAIN NodeAt(root, p.path).f = {}
    ELSE IF isObject(NodeAt(root, p.path)) /\ NodeAt(root, p.path).k = "set"
    THEN p.value \notin NodeAt(root, p.path).e
    ELSE /\ p.path # <<>>
         /\ isObject(NodeAt(root, Parent(p.path)))
         /\ NodeAt(root, Parent(p.path)).k \in {"obj", "arr", "map"}
         /\ p.path[Len(p.path)] \notin DOMAIN NodeAt(root, Parent(p.path)).f

\* C33: every patch enqueued by a call made through an observed handle of
\* item k, at any nesting depth, carries key = k and a path that leads from
\* k's root to the slot written or deleted (records, sequences, maps) or to
\* the container itself (add, clear and element delete on sets, clear on
\* maps); the path is the steps to the handle the call was made on, then the
\* slot where there is one, with no item key in front.
C33_PathFromItemRoot ==
    [][\A ns \in NsNames, key \in Keys :
          /\ CallStep("mutate") \/ CallStep("stale")
          /\ lastCall'.ns = ns
          /\ lastCall'.key = key
          => \A i \in 1..Len(NewPatches(ns)) :
                /\ NewPatches(ns)[i].key = key
                /\ Len(NewPatches(ns)[i].path) \in
                      {Len(lastCall'.arg.path), Len(lastCall'.arg.path) + 1}
                /\ SubSeq(NewPatches(ns)[i].path, 1, Len(lastCall'.arg.path))
                      = lastCall'.arg.path
                /\ Addresses(value'[ns][key], NewPatches(ns)[i])]_vars

\* C34: a batch that is delivered to the consumer after the producer produced
\* the namespace snapshot but before the consumer's register(namespace) has
\* resolved is not lost: once registration has completed, nothing is left to
\* publish or deliver and the items are synced, each mirror equals the
\* producer's root.
C34_BatchDuringRegisterKept ==
    \A ns \in ReceiverNames :
        /\ window.hit[ns]
        /\ rNamespaces[ns] # 0
        /\ queuedPatches[ns] = <<>>
        /\ delivered[ns] = Len(busUpdate[ns])
        => \A key \in rObjects[rNamespaces[ns]].items \cap items[ns] :
              rObjects[rNamespaces[ns]].value[key] = value[ns][key]

\* the scheduler and the published batches of namespace ns
Channel(ns) == <<queuedPatches[ns], emitTimeout[ns], timers[ns], busUpdate[ns]>>

\* C35: namespaces are isolated on the producer: the batches published for a
\* namespace, followed by its pending queue, are exactly the patches its own
\* items emitted, in order, each naming an item registered in it; and a call
\* on one namespace, or a flush of it, never appends to, schedules, flushes
\* or publishes for another namespace.
C35_NamespacesIsolated ==
    /\ [](\A ns \in NsNames :
             /\ Flatten(busUpdate[ns]) \o queuedPatches[ns] = emitted[ns]
             /\ \A i \in 1..Len(emitted[ns]) : emitted[ns][i].key \in items[ns])
    /\ [][\A ns \in NsNames :
             (nOps' # nOps /\ lastCall'.ns = ns) \/ FlushStep(ns) =>
                \A other \in NsNames \ {ns} : Channel(other)' = Channel(other)]_vars

\* a call on n2 was made while n1 had patches pending, and each namespace
\* holds its own patches and its own scheduled flush
C35_Witness ==
    /\ lastCall.ns = "n2"
    /\ queuedPatches["n1"] = <<Patch("set", "k", <<>>, Hello)>>
    /\ queuedPatches["n2"] = <<Patch("set", "k", <<>>, V1)>>
    /\ timers["n1"] = 1
    /\ timers["n2"] = 1

\* C36: within one consumer applyPatches call every patch of the batch, for
\* all items, is applied before any 'update' is raised: the value a listener
\* is handed, and every mirror of the namespace it reads, is the mirror as
\* the call leaves it.
C36_NotifiedAfterWholeBatch ==
    [][\A ns \in ReceiverNames :
          ApplyStep(ns) =>
             \A i \in 1..Len(rUpdates') :
                /\ rUpdates'[i].mirrors = rObjects'[rNamespaces[ns]].value
                /\ rUpdates'[i].newValue
                      = rObjects'[rNamespaces[ns]].value[rUpdates'[i].key]]_vars

\* a batch of two patches replaced a mirror and an 'update' was raised for it
C36_Witness ==
    /\ Len(rLast.patches) >= 2
    /\ rLast.object # 0
    /\ rUpdates # <<>>
    /\ rUpdates[1].newValue # rUpdates[1].oldValue
    /\ Len(rUpdates[1].patches) >= 1

\* C37: in every producer state between operations, a namespace has a flush
\* scheduled (its handle is set and its callback is pending) if and only if
\* its pending queue is non-empty.
C37_ScheduledIffPending ==
    \A ns \in NsNames :
        /\ emitTimeout[ns] <=> queuedPatches[ns] # <<>>
        /\ timers[ns] > 0 <=> queuedPatches[ns] # <<>>

\* one namespace has flushed and is idle while the other has patches pending
\* and a flush scheduled
C37_Witness ==
    /\ busUpdate["n1"] # <<>>
    /\ queuedPatches["n1"] = <<>>
    /\ ~emitTimeout["n1"]
    /\ timers["n1"] = 0
    /\ queuedPatches["n2"] # <<>>
    /\ emitTimeout["n2"]
    /\ timers["n2"] = 1

\* C38: consumer applyPatches completes without raising for every batch and
\* every mirror state, including a set patch whose parent path resolves to a
\* scalar rather than a container: every patch of the batch that names a
\* slot is routed, and each item that was routed a patch is notified.
C38_ApplyPatchesNeverRaises ==
    [][\A ns \in ReceiverNames :
          ApplyStep(ns) =>
             /\ ~rLast'.threw
             /\ \A i \in 1..Len(rLast'.patches) :
                   (/\ rLast'.patches[i].path # <<>>
                    /\ rLast'.patches[i].path[1] \in rObjects[rNamespaces[ns]].items)
                   => \E j \in 1..Len(rUpdates') :
                         rUpdates'[j].key = rLast'.patches[i].path[1]]_vars

\* C39: applying a batch at the consumer never enqueues a patch at the
\* producer.  With the in-process wiring (snapshotGetter returns
\* provider.getStateSnapshot, the 'update' listener calls
\* receiver.applyPatches) the step that publishes a batch, and with it
\* applies the batch, hands no patch to onPatch, changes no producer root and
\* leaves no flush scheduled: the producer's mutation is published once and
\* the system is quiet.
C39_ApplyingEnqueuesNothing ==
    [][\A ns \in NsNames :
          PublishStep(ns) =>
             /\ emitted'[ns] = emitted[ns]
             /\ value'[ns] = value[ns]
             /\ queuedPatches'[ns] = <<>>
             /\ timers'[ns] = 0]_vars

\* C40: after any sequence of toRef(), toShallowRef() and applied patches on
\* a consumer item, the values held by the item's ref and shallow ref, once
\* created, equal the item's toValue().
C40_RefsFollowValue ==
    /\ rObjects[1].k.ref.made => rObjects[1].k.ref.value = rObjects[1].k.value
    /\ rObjects[1].k.shallowRef.made
          => rObjects[1].k.shallowRef.value = rObjects[1].k.value

\* both refs were made while the item held a number; a root level set then
\* replaced it by a record and a nested set changed the record
C40_Witness ==
    /\ rObjects[1].k.ref.made
    /\ rObjects[1].k.shallowRef.made
    /\ rObjects[1].k.gen = 2
    /\ Len(rLast.patches) = 2
    /\ rLast.patches[2].path = <<"k", "a">>
    /\ ~rLast.threw
    /\ rObjects[1].k.value = Obj(("a" :> V2) @@ ("d" :> Deep))
====
